---- MODULE Spec2Model ----
(***************************************************************************)
(* Model of ffmpeg-auto: the Watcher (debounced file events and the filter *)
(* chain), the Scheduler (a better-queue FIFO with numeric task ids), the  *)
(* process function of index.ts and the Worker with its post tasks.        *)
(*                                                                         *)
(* Strings that the program compares or rewrites (file paths, lines of     *)
(* exclude.list) are sequences of tokens: "/" and "." are the separator    *)
(* and the dot, every other token is an opaque run of characters.          *)
(***************************************************************************)
EXTENDS Integers, Sequences, FiniteSets, TLC

\* ------------------------------------------------------------------ bounds
MaxTasks == 2
MaxEvents == 3

\* ------------------------------------------------------- configuration
Cwd == <<"/", "app">>
InputDirectory == <<"/", "in">>
OutputDirectory == <<"/", "out">>

FileA == <<"/", "in", "/", "a", ".", "mp4">>
FileB == <<"/", "in", "/", "b">>
Files == {FileA, FileB}

\* output.mappings of the profile: the output snippet is "{fn}" followed by
\* a literal suffix, the extension is mapping.format
Mappings ==
    << [suffix |-> <<>>, format |-> <<"mkv">>],
       [suffix |-> <<".", "en">>, format |-> <<"srt">>] >>

\* ------------------------------------------------------------ node path
Max(S) == CHOOSE x \in S : \A y \in S : y <= x
Min(S) == CHOOSE x \in S : \A y \in S : x <= y

LastIndexOf(s, tok) ==
    LET I == {i \in 1..Len(s) : s[i] = tok}
    IN  IF I = {} THEN 0 ELSE Max(I)

IsAbsolute(p) == p # <<>> /\ p[1] = "/"

\* path.parse(file): dir, base, name, ext (ext keeps its dot)
PathParse(file) ==
    LET k    == LastIndexOf(file, "/")
        base == SubSeq(file, k + 1, Len(file))
        j    == LastIndexOf(base, ".")
        dir  == IF k = 0 THEN <<>>
                ELSE IF k = 1 THEN <<"/">>
                ELSE SubSeq(file, 1, k - 1)
    IN  [dir  |-> dir,
         base |-> base,
         name |-> IF j > 1 THEN SubSeq(base, 1, j - 1) ELSE base,
         ext  |-> IF j > 1 THEN SubSeq(base, j, Len(base)) ELSE <<>>]

\* s.replace(/^\./, '')
StripLeadingDot(s) == IF s # <<>> /\ s[1] = "." THEN Tail(s) ELSE s

\* the segments of an absolute path
RECURSIVE Segments(_)
Segments(p) ==
    IF p = <<>> THEN <<>>
    ELSE IF p[1] = "/" THEN Segments(Tail(p))
    ELSE LET I == {i \in 1..Len(p) : p[i] = "/"}
             e == IF I = {} THEN Len(p) + 1 ELSE Min(I)
         IN  <<SubSeq(p, 1, e - 1)>> \o Segments(SubSeq(p, e, Len(p)))

RECURSIVE JoinSegments(_)
JoinSegments(ss) ==
    IF ss = <<>> THEN <<>>
    ELSE IF Len(ss) = 1 THEN ss[1]
    ELSE ss[1] \o <<"/">> \o JoinSegments(Tail(ss))

\* path.normalize on an absolute path: no empty segment, no trailing
\* separator
NodeNormalize(p) == <<"/">> \o JoinSegments(Segments(p))

\* path.resolve(a, b)
NodeResolve(a, b) ==
    LET base == IF IsAbsolute(a) THEN a
                ELSE IF a = <<>> THEN Cwd
                ELSE Cwd \o <<"/">> \o a
    IN  NodeNormalize(IF IsAbsolute(b) THEN b
                      ELSE IF b = <<>> THEN base
                      ELSE base \o <<"/">> \o b)

\* path.dirname of an absolute path
NodeDirname(p) == PathParse(p).dir

RECURSIVE CommonPrefixLen(_, _)
CommonPrefixLen(a, b) ==
    IF a = <<>> \/ b = <<>> \/ a[1] # b[1] THEN 0
    ELSE 1 + CommonPrefixLen(Tail(a), Tail(b))

\* path.relative(from, to)
NodeRelative(from, to) ==
    LET f == Segments(NodeResolve(from, <<>>))
        t == Segments(NodeResolve(to, <<>>))
        c == CommonPrefixLen(f, t)
        ups == [i \in 1..(Len(f) - c) |-> <<"..">>]
    IN  JoinSegments(ups \o SubSeq(t, c + 1, Len(t)))

\* path.format({dir, name, ext})
NodeFormat(dir, name, ext) ==
    IF dir = <<>> THEN name \o ext
    ELSE IF dir = <<"/">> THEN dir \o name \o ext
    ELSE dir \o <<"/">> \o name \o ext

\* ------------------------------------------------------------ media Path
PathFromFile(basedir, file) ==
    LET filepath == PathParse(file)
    IN  [parent    |-> NodeRelative(basedir, filepath.dir),
         filename  |-> filepath.name,
         extension |-> StripLeadingDot(filepath.ext)]

PathResolve(p, basedir) ==
    NodeFormat(NodeResolve(basedir, p.parent), p.filename, <<".">> \o p.extension)

resolvePath(p, basedir) == PathResolve(p, basedir)

\* Path.fromSnippet for the output snippet of mapping m
PathFromSnippet(inputPath, m) ==
    [parent    |-> inputPath.parent,
     filename  |-> inputPath.filename \o m.suffix,
     extension |-> m.format]

\* the input path the Worker holds for a scheduled file
InputPathOf(file) == resolvePath(PathFromFile(InputDirectory, file), InputDirectory)

\* the resolved output paths of the plan whose mappings sel yield an output
RECURSIVE OutputPaths(_, _, _)
OutputPaths(file, sel, i) ==
    IF i > Len(Mappings) THEN <<>>
    ELSE (IF i \in sel
          THEN <<resolvePath(PathFromSnippet(PathFromFile(InputDirectory, file), Mappings[i]),
                             OutputDirectory)>>
          ELSE <<>>) \o OutputPaths(file, sel, i + 1)

Range(s) == {s[i] : i \in 1..Len(s)}

AllOutputPaths ==
    UNION {Range(OutputPaths(f, 1..Len(Mappings), 1)) : f \in Files}

\* ------------------------------------------------------------------ state
VARIABLES
    \* Scheduler (part_000)
    taskCount,      \* Scheduler.taskCount
    tasks,          \* Scheduler.tasks: id -> file
    currentTask,    \* Scheduler.currentTask
    queue,          \* the store of the better-queue: queued tasks, oldest first
    inflight,       \* ids the queue has handed to the process function and
                    \* whose completion callback has not been invoked
    delaying,       \* afterProcessDelay is running
    \* process function and Worker (index.ts, part_009)
    procs,          \* tasks being processed: [id, file, phase, outputs]
    deleteAfterProcess, \* profile.input.deleteAfterProcess
    worker,         \* one Worker object seen event by event: its context, its
                    \* locked field, the state of its ffmpeg command and, as
                    \* history, the number of command.run() calls, the outcome
                    \* of every execute() call, the events the Worker emitted
                    \* and the listeners of its constructor that ran
    mapper,         \* one run of the process function on a probed input: the
                    \* mappings of the profile, the InputMedia, the promise of
                    \* mapper.apply, the calls Worker.execute makes on its
                    \* ffmpeg command and, as history, the Workers created
                    \* and the callback calls
    \* file system
    disk,           \* paths that exist
    excludeList,    \* exclude.list: [exists, lines]
    pendingAppend,  \* fs.appendFile calls in flight: <<id, line>>
    pendingUnlink,  \* fs.unlink calls in flight: <<id, path>>
    \* history
    status,         \* id -> "none" | "queued" | "apply" | "run" | "done"
                    \*       | "failed" | "rejected" | "cancelled"
    victims,        \* ids that were queued for x when cancel(x) was called
    appendBy,       \* <<id, file>>: Workers that issued an exclude.list append
    existedAtFailure, \* <<id, path>>: planned output on disk when id failed
    unlinked,       \* <<id, path>>: unlink calls that have completed
    \* Watcher (part_008)
    pendingFiles,   \* Watcher.pendingFiles
    timerArmed,     \* Watcher.pendingTimer is set and has not fired
    passes,         \* notify() calls in progress: [idx, file, live, own] and,
                    \* as history, snap (the sorted pending list when the
                    \* timer fired) and seen (the files handed to filter())
    events,         \* number of watch events received
    \* history
    emitted,        \* <<event, file>>: events the Watcher has emitted
    wiredCalls,     \* <<method, file>>: Scheduler calls made by its listeners
    lastFilter,     \* the last filter() that settled: <<file, every test resolved,
                    \* schedule events emitted>>
    owed,           \* files added, not removed since and not handed to
                    \* filter() since
    \* one call of Watcher.filter (part_008, watcher.filter.ts)
    filterRun,      \* the profile's include and exclude, the file, the tests
                    \* invoked in order, what ffprobe answered and the outcome
                    \* of each test and of the call
    \* one call of SetOwnerTask.setOwner (part_009)
    ownerWalk,      \* the output directory of the profile, the output path,
                    \* currentPath and, as history, the paths the loop
                    \* has looked at
    \* one Path of media.ts
    pathTrip        \* the base directory, the file, the Path made by
                    \* Path.fromFile and what its resolve(basedir) returns

schedVars == <<taskCount, tasks, currentTask, queue, inflight, delaying>>
workVars  == <<procs, deleteAfterProcess>>
fsVars    == <<disk, excludeList, pendingAppend, pendingUnlink>>
histVars  == <<status, victims, appendBy, existedAtFailure, unlinked>>
watchVars ==
    <<pendingFiles, timerArmed, passes, events, emitted, wiredCalls, lastFilter, owed,
      filterRun, ownerWalk, pathTrip>>
vars == <<schedVars, workVars, worker, mapper, fsVars, histVars, watchVars>>

TaskIds == 1..MaxTasks

InitWith(el) ==
    /\ taskCount = 0
    /\ tasks = <<>>
    /\ currentTask = 0
    /\ queue = <<>>
    /\ inflight = {}
    /\ delaying = FALSE
    /\ procs = {}
    /\ deleteAfterProcess \in BOOLEAN
    /\ disk = Files
    /\ excludeList = el
    /\ pendingAppend = {}
    /\ pendingUnlink = {}
    /\ status = [i \in TaskIds |-> "none"]
    /\ victims = {}
    /\ appendBy = {}
    /\ existedAtFailure = {}
    /\ unlinked = {}
    /\ pendingFiles = <<>>
    /\ timerArmed = FALSE
    /\ passes = <<>>
    /\ events = 0
    /\ emitted = {}
    /\ wiredCalls = {}
    /\ lastFilter = <<>>
    /\ owed = {}

\* no Worker has been constructed
NoWorker ==
    [context |-> <<>>, locked |-> FALSE, command |-> "none", runs |-> 0,
     outputEvents |-> 0, results |-> <<>>, events |-> <<>>, ran |-> <<>>]

\* Watcher.filters, in the order the constructor pushes them
WatcherFilters == <<"ExcludeListFilter", "ExtensionFilter", "FFProbeFilter">>

\* an unset regular expression of the profile
Unset == [set |-> FALSE, exts |-> {}]

\* ffprobe has not called back
NoProbe == [err |-> FALSE, data |-> FALSE, duration |-> "none"]

\* Watcher.filter has not been called
NoFilterRun ==
    [include |-> Unset, exclude |-> Unset, file |-> <<>>, stage |-> "none",
     invoked |-> <<>>, probe |-> NoProbe,
     results |-> [f \in {WatcherFilters[i] : i \in 1..Len(WatcherFilters)} |-> "none"],
     verdict |-> ""]

\* no Path has been made
NoPathTrip ==
    [basedir |-> <<>>, file |-> <<>>, stage |-> "none", path |-> <<>>, resolved |-> <<>>]

\* SetOwnerTask has not run
NoOwnerWalk ==
    [directory |-> <<>>, file |-> <<>>, env |-> FALSE, stage |-> "none",
     currentPath |-> <<>>, visited |-> {}]

\* the process function has not run
NoMapper ==
    [profile |-> <<>>, mappings |-> <<>>, input |-> <<>>, probed |-> <<>>,
     stage |-> "none", plan |-> <<>>,
     workers |-> 0, command |-> <<>>, callbacks |-> <<>>]

Init ==
    /\ InitWith([exists |-> FALSE, lines |-> <<>>])
    /\ worker = NoWorker
    /\ mapper = NoMapper
    /\ filterRun = NoFilterRun
    /\ ownerWalk = NoOwnerWalk
    /\ pathTrip = NoPathTrip

\* -------------------------------------------------------------- Scheduler
\* Map.delete
MapDelete(m, k) == [i \in DOMAIN m \ {k} |-> m[i]]
\* Map.set
MapSet(m, k, v) == [i \in DOMAIN m \cup {k} |-> IF i = k THEN v ELSE m[i]]

\* Scheduler.findId: the first key, in insertion order, whose value is file
findId(file) ==
    LET K == {k \in DOMAIN tasks : tasks[k] = file}
    IN  IF K = {} THEN -1 ELSE Min(K)

\* (variant: a store that serves the newest task first)
QueuePushFront(q, t) == <<t>> \o q

\* the store of the queue: first in, first out
QueuePush(q, t) == Append(q, t)

QueueRemove(q, id) == SelectSeq(q, LAMBDA t : t.id # id)

QueuedIds == {queue[i].id : i \in 1..Len(queue)}

\* Scheduler.schedule(file): queue.push(file); the id option calls createId
scheduleBody(file) ==
    /\ taskCount < MaxTasks
    /\ LET id == taskCount + 1
       IN  /\ taskCount' = id
           /\ tasks' = MapSet(tasks, id, file)
           /\ queue' = QueuePush(queue, [id |-> id, file |-> file])
           /\ status' = [status EXCEPT ![id] = "queued"]
    /\ UNCHANGED victims

\* Scheduler.cancel(file)
cancelBody(file) ==
    LET id == findId(file)
    IN  /\ victims' = victims \cup {t \in QueuedIds : tasks[t] = file}
        /\ IF id > currentTask
           THEN /\ queue' = QueueRemove(queue, id)
                /\ tasks' = MapDelete(tasks, id)
                /\ status' = [status EXCEPT ![id] = "cancelled"]
           ELSE UNCHANGED <<queue, tasks, status>>
        /\ UNCHANGED taskCount

\* what a call of a Scheduler method changes
callVars == <<taskCount, tasks, queue, status, victims>>

schedule(file) ==
    /\ scheduleBody(file)
    /\ UNCHANGED <<currentTask, inflight, delaying, workVars, worker, mapper, fsVars,
                   appendBy, existedAtFailure, unlinked, watchVars>>

cancel(file) ==
    /\ cancelBody(file)
    /\ UNCHANGED <<currentTask, inflight, delaying, workVars, worker, mapper, fsVars,
                   appendBy, existedAtFailure, unlinked, watchVars>>

\* the queue takes its next task: one at a time, not during afterProcessDelay;
\* task_started sets currentTask and the process function calls mapper.apply
ProcessStart ==
    /\ queue # <<>>
    /\ inflight = {}
    /\ ~delaying
    /\ LET t == Head(queue)
       IN  /\ queue' = Tail(queue)
           /\ inflight' = {t.id}
           /\ currentTask' = t.id
           /\ procs' = procs \cup
                  {[id |-> t.id, file |-> t.file, phase |-> "apply", outputs |-> <<>>]}
           /\ status' = [status EXCEPT ![t.id] = "apply"]
    /\ UNCHANGED watchVars
    /\ UNCHANGED <<taskCount, tasks, delaying, deleteAfterProcess, worker, mapper, fsVars,
                   victims, appendBy, existedAtFailure, unlinked>>

\* callback(...) of the process function: task_finish or task_failed deletes
\* the id from tasks, the queue frees its slot and starts afterProcessDelay
Callback(id) ==
    /\ inflight' = inflight \ {id}
    /\ tasks' = MapDelete(tasks, id)
    /\ delaying' = TRUE

\* afterProcessDelay (10 s) has elapsed
DelayElapsed ==
    /\ delaying
    /\ delaying' = FALSE
    /\ UNCHANGED watchVars
    /\ UNCHANGED <<taskCount, tasks, currentTask, queue, inflight, workVars, worker, mapper,
                   fsVars, histVars>>

\* ----------------------------------------------------------------- Worker
\* UpdateExcludeListTask.execute: fs.appendFile(excludeList, file + '\n')
UpdateExcludeListTask(t) == {<<t.id, InputPathOf(t.file)>>}

\* CleanInputTask.execute: fs.unlink of the input when deleteAfterProcess
CleanInputTask(t) ==
    IF deleteAfterProcess THEN {<<t.id, InputPathOf(t.file)>>} ELSE {}

\* (variant: only the first planned output is deleted)
CleanOutputTaskFirst(t, d) ==
    {<<t.id, t.outputs[i]>> : i \in {j \in 1..Len(t.outputs) : j = 1 /\ t.outputs[j] \in d}}

\* CleanOutputTask.execute: deleteIfPresent for every planned output;
\* d is the set of paths that exist when the task runs
CleanOutputTask(t, d) ==
    {<<t.id, t.outputs[i]>> : i \in {j \in 1..Len(t.outputs) : t.outputs[j] \in d}}

\* the 'end' listener of the Worker constructor (SetOwnerTask does nothing
\* while UID and GID are unset)
WorkerOnEnd(t, d) ==
    [appends |-> UpdateExcludeListTask(t), unlinks |-> CleanInputTask(t)]

\* (variant: the 'error' listener also registers the input as processed)
WorkerOnErrorAppends(t, d) ==
    [appends |-> UpdateExcludeListTask(t), unlinks |-> CleanOutputTask(t, d)]

\* the 'error' listener of the Worker constructor
WorkerOnError(t, d) ==
    [appends |-> {}, unlinks |-> CleanOutputTask(t, d)]

\* mapper.apply(file) rejects (the file is gone, the probe fails, or the
\* mappings yield no output): the catch of the process function calls
\* callback(reason)
ApplyReject(t) ==
    /\ t \in procs /\ t.phase = "apply"
    /\ procs' = procs \ {t}
    /\ Callback(t.id)
    /\ status' = [status EXCEPT ![t.id] = "rejected"]
    /\ UNCHANGED watchVars
    /\ UNCHANGED <<taskCount, currentTask, queue, deleteAfterProcess, worker, mapper, fsVars,
                   victims, appendBy, existedAtFailure, unlinked>>

\* InputMediaBuilder.build: resolveInputParameters throws (a snippet of
\* input.params does not resolve) inside the callback of ffprobe, outside
\* the promise executor: the promise of mapper.apply never settles and the
\* process function never calls callback
ApplyThrow(t) ==
    /\ t \in procs /\ t.phase = "apply"
    /\ t.file \in disk
    /\ procs' = (procs \ {t}) \cup {[t EXCEPT !.phase = "thrown"]}
    /\ UNCHANGED watchVars
    /\ UNCHANGED <<schedVars, deleteAfterProcess, worker, mapper, fsVars, histVars>>

\* (variant: the process function does not wait for Worker.execute and
\* calls callback(null) as soon as the transcoder is started)
ApplyResolveNoWait(t, sel) ==
    /\ t \in procs /\ t.phase = "apply"
    /\ t.file \in disk
    /\ sel # {}
    /\ procs' = (procs \ {t}) \cup
           {[t EXCEPT !.phase = "run", !.outputs = OutputPaths(t.file, sel, 1)]}
    /\ Callback(t.id)
    /\ status' = [status EXCEPT ![t.id] = "run"]
    /\ UNCHANGED watchVars
    /\ UNCHANGED <<taskCount, currentTask, queue, deleteAfterProcess, worker, mapper, fsVars,
                   victims, appendBy, existedAtFailure, unlinked>>

\* mapper.apply(file) resolves with the outputs of the mappings in sel and
\* the process function runs Worker.execute, which starts the transcoder
ApplyResolve(t, sel) ==
    /\ t \in procs /\ t.phase = "apply"
    /\ t.file \in disk
    /\ sel # {}
    /\ procs' = (procs \ {t}) \cup
           {[t EXCEPT !.phase = "run", !.outputs = OutputPaths(t.file, sel, 1)]}
    /\ status' = [status EXCEPT ![t.id] = "run"]
    /\ UNCHANGED watchVars
    /\ UNCHANGED <<schedVars, deleteAfterProcess, worker, mapper, fsVars,
                   victims, appendBy, existedAtFailure, unlinked>>

\* the transcoder ends: every output is written, the Worker emits 'end',
\* execute() resolves and the process function calls callback(null)
TranscodeEnd(t) ==
    /\ t \in procs /\ t.phase = "run"
    /\ LET d == disk \cup Range(t.outputs)
           h == WorkerOnEnd(t, d)
       IN  /\ disk' = d
           /\ pendingAppend' = pendingAppend \cup h.appends
           /\ pendingUnlink' = pendingUnlink \cup h.unlinks
           /\ appendBy' = appendBy \cup {<<a[1], t.file>> : a \in h.appends}
    /\ procs' = procs \ {t}
    /\ Callback(t.id)
    /\ status' = [status EXCEPT ![t.id] = "done"]
    /\ UNCHANGED watchVars
    /\ UNCHANGED <<taskCount, currentTask, queue, deleteAfterProcess, worker, mapper,
                   excludeList, victims, existedAtFailure, unlinked>>

\* the transcoder fails after writing the outputs in written: the Worker
\* emits 'error', execute() rejects and the process function calls
\* callback(reason)
TranscodeError(t, written) ==
    /\ t \in procs /\ t.phase = "run"
    /\ written \subseteq Range(t.outputs)
    /\ LET d == disk \cup written
           h == WorkerOnError(t, d)
       IN  /\ disk' = d
           /\ pendingAppend' = pendingAppend \cup h.appends
           /\ pendingUnlink' = pendingUnlink \cup h.unlinks
           /\ appendBy' = appendBy \cup {<<a[1], t.file>> : a \in h.appends}
           /\ existedAtFailure' = existedAtFailure \cup
                  {<<t.id, p>> : p \in Range(t.outputs) \cap d}
    /\ procs' = procs \ {t}
    /\ Callback(t.id)
    /\ status' = [status EXCEPT ![t.id] = "failed"]
    /\ UNCHANGED watchVars
    /\ UNCHANGED <<taskCount, currentTask, queue, deleteAfterProcess, worker, mapper,
                   excludeList, victims, unlinked>>

\* ------------------------------------------------------------ file system
\* an fs.appendFile call completes: the line is added to exclude.list
AppendDone(a) ==
    /\ a \in pendingAppend
    /\ pendingAppend' = pendingAppend \ {a}
    /\ excludeList' = [exists |-> TRUE, lines |-> Append(excludeList.lines, a[2])]
    /\ UNCHANGED watchVars
    /\ UNCHANGED <<schedVars, workVars, worker, mapper, disk, pendingUnlink, histVars>>

\* an fs.unlink call completes
UnlinkDone(u) ==
    /\ u \in pendingUnlink
    /\ pendingUnlink' = pendingUnlink \ {u}
    /\ disk' = disk \ {u[2]}
    /\ unlinked' = unlinked \cup {u}
    /\ UNCHANGED watchVars
    /\ UNCHANGED <<schedVars, workVars, worker, mapper, excludeList, pendingAppend,
                   status, victims, appendBy, existedAtFailure>>

\* ---------------------------------------------------------------- filters
\* profile.input.include and profile.input.exclude: the extensions each
\* regular expression matches in full (unset: set = FALSE)
Include == [set |-> TRUE, exts |-> {<<"mp4">>}]
Exclude == [set |-> TRUE, exts |-> {<<"txt">>}]

\* fs.readFileSync(excludeListPath).split('\n')
SplitLines(el) == el.lines \o << <<>> >>

\* ExcludeListFilter.test: fs.stat rejects when exclude.list is missing
ExcludeListFilter(file) ==
    IF ~excludeList.exists THEN "reject"
    ELSE IF \E i \in 1..Len(SplitLines(excludeList)) : SplitLines(excludeList)[i] = file
         THEN "reject"
         ELSE "resolve"

\* (variant: with both expressions set, include must match and exclude
\* must not)
ExtensionFilterTestBoth(file, include, exclude) ==
    LET extension == StripLeadingDot(PathParse(file).ext)
    IN  IF include.set /\ exclude.set
        THEN (IF extension \in include.exts /\ extension \notin exclude.exts
              THEN "resolve" ELSE "reject")
        ELSE IF \/ (include.set /\ extension \in include.exts)
                \/ (exclude.set /\ extension \notin exclude.exts)
        THEN "resolve"
        ELSE "reject"

\* ExtensionFilter.test for the include and exclude of the profile
ExtensionFilterTest(file, include, exclude) ==
    LET extension == StripLeadingDot(PathParse(file).ext)
    IN  IF \/ (include.set /\ extension \in include.exts)
           \/ (exclude.set /\ extension \notin exclude.exts)
        THEN "resolve"
        ELSE "reject"

\* ExtensionFilter.test
ExtensionFilter(file) == ExtensionFilterTest(file, Include, Exclude)

\* FFProbeFilter.test: probeOk is what ffprobe answers
FFProbeFilter(file, probeOk) == IF probeOk THEN "resolve" ELSE "reject"

\* FFProbeFilter.test on the (err, data) ffprobe calls back with
FFProbeFilterTest(probe) == IF ~probe.err /\ probe.data THEN "resolve" ELSE "reject"

\* the value every test() promise resolves with: resolve() without argument
Resolved == "undefined"

\* the truthiness of a value
Truthy(v) == v \notin {"undefined", "null", "false"}

\* Watcher.filter: Promise.all(tests).then(results => results.every(v => v));
\* "reject" when a test rejects, TRUE / FALSE otherwise
WatcherFilter(file, probeOk) ==
    LET tests == <<ExcludeListFilter(file), ExtensionFilter(file),
                   FFProbeFilter(file, probeOk)>>
    IN  IF \E i \in 1..Len(tests) : tests[i] = "reject" THEN "reject"
        ELSE IF \A i \in 1..Len(tests) : Truthy(Resolved) THEN "true"
        ELSE "false"

\* ---------------------------------------------------------------- Watcher
\* the order of Array.prototype.sort on strings
TokenOrder == <<".", "/", "a", "app", "b", "en", "in", "mkv", "mp4", "out", "srt", "txt">>
TokenRank(tok) == CHOOSE i \in 1..Len(TokenOrder) : TokenOrder[i] = tok

RECURSIVE StringLess(_, _)
StringLess(a, b) ==
    IF b = <<>> THEN FALSE
    ELSE IF a = <<>> THEN TRUE
    ELSE IF a[1] = b[1] THEN StringLess(Tail(a), Tail(b))
    ELSE TokenRank(a[1]) < TokenRank(b[1])

RECURSIVE Insert(_, _)
Insert(x, s) ==
    IF s = <<>> THEN <<x>>
    ELSE IF StringLess(x, s[1]) THEN <<x>> \o s
    ELSE <<s[1]>> \o Insert(x, Tail(s))

RECURSIVE Sort(_)
Sort(s) == IF s = <<>> THEN <<>> ELSE Insert(s[Len(s)], Sort(SubSeq(s, 1, Len(s) - 1)))

\* Array.prototype.indexOf, counted from 1 (0: absent)
IndexOf(s, x) ==
    LET I == {i \in 1..Len(s) : s[i] = x}
    IN  IF I = {} THEN 0 ELSE Min(I)

\* the listeners index.ts registers on the Watcher: event name -> method
WatcherListeners ==
    [e \in {"add", "remove"} |-> IF e = "add" THEN "schedule" ELSE "cancel"]

\* EventEmitter.emit(event, file) on the Watcher
Emit(event, file) ==
    /\ emitted' = emitted \cup {<<event, file>>}
    /\ IF event \in DOMAIN WatcherListeners
       THEN /\ wiredCalls' = wiredCalls \cup {<<WatcherListeners[event], file>>}
            /\ IF WatcherListeners[event] = "schedule"
               THEN scheduleBody(file)
               ELSE cancelBody(file)
       ELSE UNCHANGED <<wiredCalls, callVars>>

\* Watcher.updateTimeout: is the timer armed afterwards
updateTimeout(files) == Len(files) > 0

\* Watcher.onAdd
onAdd(file) ==
    /\ events < MaxEvents
    /\ events' = events + 1
    /\ pendingFiles' = Append(pendingFiles, file)
    /\ timerArmed' = updateTimeout(pendingFiles')
    /\ owed' = owed \cup {file}
    /\ UNCHANGED <<passes, emitted, wiredCalls, lastFilter, filterRun, ownerWalk, pathTrip, callVars>>
    /\ UNCHANGED <<currentTask, inflight, delaying, workVars, worker, mapper, fsVars,
                   appendBy, existedAtFailure, unlinked>>

\* Watcher.onRemove: splice(index) drops the element and all that follow
onRemove(file) ==
    /\ events < MaxEvents
    /\ events' = events + 1
    /\ LET index == IndexOf(pendingFiles, file)
       IN  IF index > 0
           THEN /\ pendingFiles' = SubSeq(pendingFiles, 1, index - 1)
                /\ timerArmed' = updateTimeout(pendingFiles')
           ELSE UNCHANGED <<pendingFiles, timerArmed>>
    /\ Emit("cancel", file)
    /\ owed' = owed \ {file}
    /\ UNCHANGED <<passes, lastFilter, filterRun, ownerWalk, pathTrip>>
    /\ UNCHANGED <<currentTask, inflight, delaying, workVars, worker, mapper, fsVars,
                   appendBy, existedAtFailure, unlinked>>

\* Watcher.onChange
onChange(file) ==
    /\ events < MaxEvents
    /\ events' = events + 1
    /\ IF IndexOf(pendingFiles, file) > 0
       THEN timerArmed' = updateTimeout(pendingFiles)
       ELSE UNCHANGED timerArmed
    /\ UNCHANGED <<pendingFiles, passes, emitted, wiredCalls, lastFilter, owed, filterRun, ownerWalk, pathTrip,
                   callVars>>
    /\ UNCHANGED <<currentTask, inflight, delaying, workVars, worker, mapper, fsVars,
                   appendBy, existedAtFailure, unlinked>>

\* the array a pass iterates: this.pendingFiles as long as reset() has not
\* replaced it, the old array afterwards
ArrayOf(p) == IF p.live THEN pendingFiles ELSE p.own

\* Watcher.reset while pass k ends: the passes that still iterate the old
\* array keep it
ResetPasses(k) ==
    LET kept == [i \in 1..Len(passes) |->
                    IF passes[i].live
                    THEN [passes[i] EXCEPT !.live = FALSE, !.own = pendingFiles]
                    ELSE passes[i]]
    IN  SubSeq(kept, 1, k - 1) \o SubSeq(kept, k + 1, Len(kept))

\* the timer fires: notify() sorts pendingFiles in place and awaits the
\* filter of its first file
TimerFire ==
    /\ timerArmed
    /\ LET sortedFiles == Sort(pendingFiles)
       IN  IF sortedFiles = <<>>
           THEN /\ pendingFiles' = <<>>
                /\ passes' = ResetPasses(Len(passes) + 1)
                /\ owed' = owed
           ELSE /\ pendingFiles' = sortedFiles
                /\ owed' = owed \ {sortedFiles[1]}
                /\ passes' = Append(passes,
                       [idx |-> 1, file |-> sortedFiles[1], live |-> TRUE, own |-> <<>>,
                        snap |-> sortedFiles, seen |-> <<sortedFiles[1]>>])
    /\ timerArmed' = FALSE
    /\ UNCHANGED <<events, emitted, wiredCalls, lastFilter, filterRun, ownerWalk, pathTrip, callVars>>
    /\ UNCHANGED <<currentTask, inflight, delaying, workVars, worker, mapper, fsVars,
                   appendBy, existedAtFailure, unlinked>>

\* the filter awaited by pass k settles: notify() emits schedule(file) when
\* it yields true, then takes the next file of its array or calls reset()
FilterDone(k, probeOk) ==
    /\ k \in 1..Len(passes)
    /\ LET p == passes[k]
           included == WatcherFilter(p.file, probeOk)
           arr == ArrayOf(p)
       IN  /\ lastFilter' =
                  <<p.file, included # "reject", IF included = "true" THEN 1 ELSE 0>>
           /\ IF included = "true"
              THEN Emit("schedule", p.file)
              ELSE UNCHANGED <<emitted, wiredCalls, callVars>>
           /\ IF p.idx < Len(arr)
              THEN /\ passes' = [passes EXCEPT ![k] =
                          [p EXCEPT !.idx = p.idx + 1, !.file = arr[p.idx + 1],
                                    !.seen = Append(p.seen, arr[p.idx + 1])]]
                   /\ owed' = owed \ {arr[p.idx + 1]}
                   /\ UNCHANGED <<pendingFiles, timerArmed>>
              ELSE /\ passes' = ResetPasses(k)
                   /\ owed' = owed
                   /\ pendingFiles' = <<>>
                   /\ timerArmed' = FALSE
    /\ UNCHANGED <<events, filterRun, ownerWalk, pathTrip>>
    /\ UNCHANGED <<currentTask, inflight, delaying, workVars, worker, mapper, fsVars,
                   appendBy, existedAtFailure, unlinked>>

\* ---------------------------------------------------------- specification
MappingSets == SUBSET (1..Len(Mappings))

Next ==
    \/ \E f \in Files : schedule(f)
    \/ \E f \in Files : cancel(f)
    \/ ProcessStart
    \/ DelayElapsed
    \/ \E t \in procs : ApplyReject(t)
    \/ \E t \in procs : ApplyThrow(t)
    \/ \E t \in procs, sel \in MappingSets : ApplyResolve(t, sel)
    \/ \E t \in procs : TranscodeEnd(t)
    \/ \E t \in procs, w \in SUBSET AllOutputPaths : TranscodeError(t, w)
    \/ \E a \in pendingAppend : AppendDone(a)
    \/ \E u \in pendingUnlink : UnlinkDone(u)

Spec == Init /\ [][Next]_vars

\* the Watcher of the assembled program, started on an exclude.list that
\* earlier runs may have left
PersistedExcludeLists ==
    {[exists |-> FALSE, lines |-> <<>>]} \cup
    {[exists |-> TRUE, lines |-> <<InputPathOf(f)>>] : f \in Files}

WatcherInit ==
    /\ \E el \in PersistedExcludeLists : InitWith(el)
    /\ deleteAfterProcess = FALSE
    /\ worker = NoWorker
    /\ mapper = NoMapper
    /\ filterRun = NoFilterRun
    /\ ownerWalk = NoOwnerWalk
    /\ pathTrip = NoPathTrip

WatcherNext ==
    \/ \E f \in Files : onAdd(f)
    \/ \E f \in Files : onRemove(f)
    \/ \E f \in Files : onChange(f)
    \/ TimerFire
    \/ \E k \in 1..Len(passes), probeOk \in BOOLEAN : FilterDone(k, probeOk)

WatcherSpec == WatcherInit /\ [][WatcherNext]_vars

\* the stabilization timer fires and the filters terminate
WatcherLiveSpec ==
    /\ WatcherSpec
    /\ WF_vars(TimerFire)
    /\ WF_vars(\E k \in 1..Len(passes), probeOk \in BOOLEAN : FilterDone(k, probeOk))

\* ------------------------------------------------ one call of Watcher.filter
\* the values of profile.input.include and profile.input.exclude
ExpressionValues ==
    {Unset, [set |-> TRUE, exts |-> {<<"mp4">>}], [set |-> TRUE, exts |-> {<<"txt">>}]}

\* the files the watcher reports
FileT == <<"/", "in", "/", "a", ".", "txt">>
FilterFiles == Files \cup {FileT}

\* exclude.list as the filter finds it: missing, empty, holding the
\* path of a.mp4, holding the path of a.mp4 relative to the input directory
FilterExcludeLists ==
    {[exists |-> FALSE, lines |-> <<>>],
     [exists |-> TRUE, lines |-> <<>>],
     [exists |-> TRUE, lines |-> <<FileA>>],
     [exists |-> TRUE, lines |-> <<NodeRelative(InputDirectory, FileA)>>]}

\* what ffprobe calls back with: err, data, and what data.format.duration is
ProbeOutcomes ==
    {[err |-> TRUE,  data |-> FALSE, duration |-> "none"],
     [err |-> FALSE, data |-> FALSE, duration |-> "none"],
     [err |-> FALSE, data |-> TRUE,  duration |-> "number"],
     [err |-> FALSE, data |-> TRUE,  duration |-> "N/A"],
     [err |-> FALSE, data |-> TRUE,  duration |-> "missing"]}

\* Watcher.filter up to Promise.all: filters.map(f => f.test(file)) calls
\* every test in turn; the executor of ExtensionFilter.test settles its
\* promise during the call, fs.stat and ffprobe answer later
FilterCall ==
    /\ filterRun.stage = "idle"
    /\ filterRun' =
           [filterRun EXCEPT
              !.stage = "called",
              !.invoked = WatcherFilters,
              !.results = [f \in DOMAIN filterRun.results |->
                 IF f = "ExtensionFilter"
                 THEN ExtensionFilterTest(filterRun.file, filterRun.include,
                                          filterRun.exclude)
                 ELSE "pending"]]
    /\ UNCHANGED <<schedVars, workVars, worker, mapper, fsVars, histVars>>
    /\ UNCHANGED <<pendingFiles, timerArmed, passes, events, emitted, wiredCalls,
                   lastFilter, owed, ownerWalk, pathTrip>>

\* fs.stat settles and the then-callback of ExcludeListFilter.test runs
StatDone ==
    /\ filterRun.stage \in {"called", "settled"}
    /\ filterRun.results["ExcludeListFilter"] = "pending"
    /\ filterRun' =
           [filterRun EXCEPT
              !.results["ExcludeListFilter"] = ExcludeListFilter(filterRun.file)]
    /\ UNCHANGED <<schedVars, workVars, worker, mapper, fsVars, histVars>>
    /\ UNCHANGED <<pendingFiles, timerArmed, passes, events, emitted, wiredCalls,
                   lastFilter, owed, ownerWalk, pathTrip>>

\* ffprobe calls back
ProbeDone(probe) ==
    /\ filterRun.stage \in {"called", "settled"}
    /\ filterRun.results["FFProbeFilter"] = "pending"
    /\ filterRun' =
           [filterRun EXCEPT
              !.probe = probe,
              !.results["FFProbeFilter"] = FFProbeFilterTest(probe)]
    /\ UNCHANGED <<schedVars, workVars, worker, mapper, fsVars, histVars>>
    /\ UNCHANGED <<pendingFiles, timerArmed, passes, events, emitted, wiredCalls,
                   lastFilter, owed, ownerWalk, pathTrip>>

\* Promise.all settles: it rejects with the first rejection, and resolves
\* once every test has resolved; then results.every(value => value)
FilterSettle ==
    LET results == filterRun.results
        rejected == \E f \in DOMAIN results : results[f] = "reject"
    IN  /\ filterRun.stage = "called"
        /\ rejected \/ \A f \in DOMAIN results : results[f] = "resolve"
        /\ filterRun' =
               [filterRun EXCEPT
                  !.stage = "settled",
                  !.verdict = IF rejected THEN "reject"
                              ELSE IF \A f \in DOMAIN results : Truthy(Resolved)
                              THEN "true" ELSE "false"]
        /\ UNCHANGED <<schedVars, workVars, worker, mapper, fsVars, histVars>>
        /\ UNCHANGED <<pendingFiles, timerArmed, passes, events, emitted, wiredCalls,
                       lastFilter, owed, ownerWalk, pathTrip>>

FilterInit ==
    /\ \E el \in FilterExcludeLists : InitWith(el)
    /\ deleteAfterProcess = FALSE
    /\ worker = NoWorker
    /\ mapper = NoMapper
    /\ ownerWalk = NoOwnerWalk
    /\ pathTrip = NoPathTrip
    /\ \E include \in ExpressionValues, exclude \in ExpressionValues, file \in FilterFiles :
          filterRun = [NoFilterRun EXCEPT !.include = include, !.exclude = exclude,
                                          !.file = file, !.stage = "idle"]

FilterNext ==
    \/ FilterCall
    \/ StatDone
    \/ \E probe \in ProbeOutcomes : ProbeDone(probe)
    \/ FilterSettle

FilterSpec == FilterInit /\ [][FilterNext]_vars

\* ------------------------------------------- one call of SetOwnerTask.setOwner
\* the forms of profile.output.directory: absolute or relative to the
\* working directory, with and without a trailing separator
OutputDirectoryForms ==
    {<<"/", "out">>, <<"/", "out", "/">>, <<"out">>, <<"out", "/">>}

\* the paths of the planned outputs
OwnedPaths ==
    {[parent |-> parent, filename |-> <<name>>, extension |-> <<"mkv">>] :
        parent \in {<<>>, <<"sub">>, <<"sub", "/", "deep">>}, name \in {"a", "b"}}

\* directory.replace(`${path.sep}$`, ''): the pattern is a string, the
\* first occurrence of the two characters '/$' is removed
RECURSIVE ReplaceSepDollar(_)
ReplaceSepDollar(d) ==
    IF Len(d) < 2 THEN d
    ELSE IF d[1] = "/" /\ d[2] = "$" THEN SubSeq(d, 3, Len(d))
    ELSE <<d[1]>> \o ReplaceSepDollar(Tail(d))

\* SetOwnerTask.execute for one output: nothing without UID and GID,
\* otherwise setOwner starts at the resolved output path
SetOwnerExecute ==
    /\ ownerWalk.stage = "idle"
    /\ ownerWalk' = IF ownerWalk.env
                    THEN [ownerWalk EXCEPT !.stage = "walking",
                                           !.currentPath = ownerWalk.file]
                    ELSE [ownerWalk EXCEPT !.stage = "done"]
    /\ UNCHANGED <<schedVars, workVars, worker, mapper, fsVars, histVars>>
    /\ UNCHANGED <<pendingFiles, timerArmed, passes, events, emitted, wiredCalls,
                   lastFilter, owed, filterRun, pathTrip>>

\* one turn of the while loop of setOwner: stat (and chown) currentPath,
\* then currentPath = path.dirname(currentPath)
SetOwnerStep ==
    /\ ownerWalk.stage = "walking"
    /\ ownerWalk.currentPath # ReplaceSepDollar(ownerWalk.directory)
    /\ ownerWalk' = [ownerWalk EXCEPT
                        !.visited = @ \cup {ownerWalk.currentPath},
                        !.currentPath = NodeDirname(ownerWalk.currentPath)]
    /\ UNCHANGED <<schedVars, workVars, worker, mapper, fsVars, histVars>>
    /\ UNCHANGED <<pendingFiles, timerArmed, passes, events, emitted, wiredCalls,
                   lastFilter, owed, filterRun, pathTrip>>

\* the loop ends: currentPath === parentDirectory
SetOwnerReturn ==
    /\ ownerWalk.stage = "walking"
    /\ ownerWalk.currentPath = ReplaceSepDollar(ownerWalk.directory)
    /\ ownerWalk' = [ownerWalk EXCEPT !.stage = "done"]
    /\ UNCHANGED <<schedVars, workVars, worker, mapper, fsVars, histVars>>
    /\ UNCHANGED <<pendingFiles, timerArmed, passes, events, emitted, wiredCalls,
                   lastFilter, owed, filterRun, pathTrip>>

OwnerInit ==
    /\ InitWith([exists |-> FALSE, lines |-> <<>>])
    /\ deleteAfterProcess = FALSE
    /\ worker = NoWorker
    /\ mapper = NoMapper
    /\ filterRun = NoFilterRun
    /\ pathTrip = NoPathTrip
    /\ \E directory \in OutputDirectoryForms, o \in OwnedPaths, env \in BOOLEAN :
           ownerWalk = [NoOwnerWalk EXCEPT !.directory = directory,
                                           !.file = resolvePath(o, directory),
                                           !.env = env,
                                           !.stage = "idle"]

OwnerNext ==
    \/ SetOwnerExecute
    \/ SetOwnerStep
    \/ SetOwnerReturn

OwnerSpec == OwnerInit /\ [][OwnerNext]_vars

\* fs.unlink calls complete
UnlinkCalls == TaskIds \X (AllOutputPaths \cup {InputPathOf(f) : f \in Files})

FairSpec == Spec /\ \A u \in UnlinkCalls : WF_vars(UnlinkDone(u))

\* the queue takes its next task when it can, afterProcessDelay elapses,
\* ffprobe calls back and the transcoder terminates
ApplySettles ==
    \E t \in procs :
        \/ ApplyReject(t)
        \/ ApplyThrow(t)
        \/ \E sel \in MappingSets : ApplyResolve(t, sel)

TranscodeSettles ==
    \E t \in procs :
        \/ \E w \in SUBSET AllOutputPaths : TranscodeError(t, w)
        \/ TranscodeEnd(t)

LiveSpec ==
    /\ Spec
    /\ WF_vars(ProcessStart)
    /\ WF_vars(DelayElapsed)
    /\ WF_vars(ApplySettles)
    /\ WF_vars(TranscodeSettles)

\* ------------------------------------------- one Worker, event by event
MaxExecutes == 3
MaxOutputEvents == 2

\* the rejection of a second execute()
AlreadyExecuted == "This task has already been executed"

\* new Worker(context) for the plan of file with the mappings in sel
NewWorker(file, sel) ==
    [NoWorker EXCEPT !.context =
        [id |-> 1, file |-> file, phase |-> "run", outputs |-> OutputPaths(file, sel, 1)]]

\* (variant: execute() does not look at the lock)
ExecuteUnlocked(w) ==
    [w EXCEPT !.locked = TRUE, !.command = "prepared", !.runs = @ + 1,
              !.results = Append(@, "pending")]

\* Worker.execute(): rejects when locked, else locks, builds the command,
\* adds the listeners and calls command.run()
Execute(w) ==
    IF w.locked
    THEN [w EXCEPT !.results = Append(@, AlreadyExecuted)]
    ELSE [w EXCEPT !.locked = TRUE, !.command = "prepared", !.runs = @ + 1,
                   !.results = Append(@, "pending")]

\* the promise of the running execute() settles
Settle(results, outcome) ==
    [i \in 1..Len(results) |-> IF results[i] = "pending" THEN outcome ELSE results[i]]

\* the kinds of stderr lines: a progress line, the prompt, any other line
StderrKinds == {"frame", "prompt", "text"}

\* (variant: an error of the command is forwarded as 'error' and as 'end')
AddListenersErrorEnds(event, kind) ==
    CASE event = "start"    -> <<"start">>
      [] event = "progress" -> <<"progress">>
      [] event = "stderr"   -> IF kind = "text" THEN <<"line">> ELSE <<>>
      [] event = "end"      -> <<"end">>
      [] event = "error"    -> <<"error", "end">>

\* Worker.addListeners: the Worker events emitted for an event of the command
AddListeners(event, kind) ==
    CASE event = "start"    -> <<"start">>
      [] event = "progress" -> <<"progress">>
      [] event = "stderr"   -> IF kind = "text" THEN <<"line">> ELSE <<>>
      [] event = "end"      -> <<"end">>
      [] event = "error"    -> <<"error">>

\* the listeners of the Worker constructor run for the emitted events evs:
\* the appends and unlinks they issue and, in order, the listeners that ran
RECURSIVE ConstructorListeners(_, _, _)
ConstructorListeners(evs, t, d) ==
    IF evs = <<>> THEN [appends |-> {}, unlinks |-> {}, ran |-> <<>>]
    ELSE LET rest == ConstructorListeners(Tail(evs), t, d)
             h == IF Head(evs) = "end" THEN WorkerOnEnd(t, d) ELSE WorkerOnError(t, d)
         IN  IF Head(evs) \in {"end", "error"}
             THEN [appends |-> h.appends \cup rest.appends,
                   unlinks |-> h.unlinks \cup rest.unlinks,
                   ran     |-> <<Head(evs)>> \o rest.ran]
             ELSE rest

workerFrame ==
    <<schedVars, workVars, mapper, histVars, watchVars>>

\* a caller invokes execute() on the Worker
WorkerExecute ==
    /\ Len(worker.results) < MaxExecutes
    /\ worker' = Execute(worker)
    /\ UNCHANGED <<workerFrame, fsVars>>

\* the command spawns ffmpeg and emits 'start'
CommandStart ==
    /\ worker.command = "prepared"
    /\ worker' = [worker EXCEPT !.command = "started",
                                !.events = @ \o AddListeners("start", "")]
    /\ UNCHANGED <<workerFrame, fsVars>>

\* the command emits 'progress'
CommandProgress ==
    /\ worker.command = "started"
    /\ worker.outputEvents < MaxOutputEvents
    /\ worker' = [worker EXCEPT !.outputEvents = @ + 1,
                                !.events = @ \o AddListeners("progress", "")]
    /\ UNCHANGED <<workerFrame, fsVars>>

\* the command emits 'stderr' with a line of the given kind
CommandStderr(kind) ==
    /\ worker.command = "started"
    /\ worker.outputEvents < MaxOutputEvents
    /\ worker' = [worker EXCEPT !.outputEvents = @ + 1,
                                !.events = @ \o AddListeners("stderr", kind)]
    /\ UNCHANGED <<workerFrame, fsVars>>

\* the command emits 'end': ffmpeg has written every output
CommandEnd ==
    /\ worker.command = "started"
    /\ LET evs == AddListeners("end", "")
           d == disk \cup Range(worker.context.outputs)
           h == ConstructorListeners(evs, worker.context, d)
       IN  /\ disk' = d
           /\ pendingAppend' = pendingAppend \cup h.appends
           /\ pendingUnlink' = pendingUnlink \cup h.unlinks
           /\ worker' = [worker EXCEPT !.command = "ended",
                                       !.events = @ \o evs,
                                       !.ran = @ \o h.ran,
                                       !.results = Settle(@, "resolved")]
    /\ UNCHANGED <<workerFrame, excludeList>>

\* the command emits 'error': ffmpeg could not be spawned, or failed after
\* writing the outputs in written
CommandError(written) ==
    /\ worker.command \in {"prepared", "started"}
    /\ written \subseteq Range(worker.context.outputs)
    /\ worker.command = "prepared" => written = {}
    /\ LET evs == AddListeners("error", "")
           d == disk \cup written
           h == ConstructorListeners(evs, worker.context, d)
       IN  /\ disk' = d
           /\ pendingAppend' = pendingAppend \cup h.appends
           /\ pendingUnlink' = pendingUnlink \cup h.unlinks
           /\ worker' = [worker EXCEPT !.command = "ended",
                                       !.events = @ \o evs,
                                       !.ran = @ \o h.ran,
                                       !.results = Settle(@, "rejected")]
    /\ UNCHANGED <<workerFrame, excludeList>>

WorkerInit ==
    /\ InitWith([exists |-> FALSE, lines |-> <<>>])
    /\ \E f \in Files, sel \in MappingSets \ {{}} : worker = NewWorker(f, sel)
    /\ mapper = NoMapper
    /\ filterRun = NoFilterRun
    /\ ownerWalk = NoOwnerWalk
    /\ pathTrip = NoPathTrip

WorkerNext ==
    \/ WorkerExecute
    \/ CommandStart
    \/ CommandProgress
    \/ \E kind \in StderrKinds : CommandStderr(kind)
    \/ CommandEnd
    \/ \E w \in SUBSET AllOutputPaths : CommandError(w)

WorkerSpec == WorkerInit /\ [][WorkerNext]_vars

\* ---------------------------------------------------------------- snippet
\* Strings of the profile are sequences of tokens: "{" and "}" are the
\* braces, NL is a line terminator, " " a blank, the members of Seps the
\* separators a shortcut may carry; every other token is a run of other
\* characters.
NL == "\n"
Seps == {".", "_", "-"}

\* the result of a call that may throw
Ok(v) == [ok |-> TRUE, val |-> v]
Throw == [ok |-> FALSE, val |-> <<>>]

\* the rest of a computation after a call that may throw: an exception
\* propagates, a value is handed on
Then(r, F(_)) == IF r.ok THEN F(r.val) ELSE Throw

\* REGEX /{((?:(?![{}]).)*)}/ matches somewhere in s ('.' matches no
\* line terminator)
HasPattern(s) ==
    \E i, j \in 1..Len(s) :
        /\ i < j
        /\ s[i] = "{"
        /\ s[j] = "}"
        /\ \A k \in (i + 1)..(j - 1) : s[k] \notin {"{", "}", NL}

\* DefaultSnippetResolver.checkComplete
checkComplete(result) == IF HasPattern(result) THEN Throw ELSE Ok(result)

\* s.replace(/{(lit)}/gi, '$1') for the literals in L
RECURSIVE ReplaceLiterals(_, _)
ReplaceLiterals(s, L) ==
    IF s = <<>> THEN <<>>
    ELSE IF Len(s) >= 3 /\ s[1] = "{" /\ s[2] \in L /\ s[3] = "}"
         THEN <<s[2]>> \o ReplaceLiterals(SubSeq(s, 4, Len(s)), L)
         ELSE <<s[1]>> \o ReplaceLiterals(Tail(s), L)

BooleanSnippetResolver(snippet) == ReplaceLiterals(snippet, {"true", "false"})

Digits == <<"0", "1", "2", "3", "4", "5", "6", "7", "8">>
NumberSnippetResolver(snippet) == ReplaceLiterals(snippet, Range(Digits))

\* String(n)
StringOf(n) == <<Digits[n + 1]>>

\* body.trim()
RECURSIVE Trim(_)
Trim(s) ==
    IF s = <<>> THEN s
    ELSE IF s[1] = " " THEN Trim(Tail(s))
    ELSE IF s[Len(s)] = " " THEN Trim(SubSeq(s, 1, Len(s) - 1))
    ELSE s

\* parseFunction(body)(context): new Function(...keys, body)(...values); a
\* binding that is not a key of the context is a ReferenceError, an
\* undefined or null result throws. The expressions the profiles use:
parseFunction(body, context) ==
    LET has(k) == k \in DOMAIN context
    IN  CASE body = <<"input.id">> -> Ok(StringOf(context["input"].id))
          [] body = <<"input.path.filename">> -> Ok(context["input"].filename)
          [] body = <<"input.format.tags.title">> ->
                 IF context["input"].title = <<"undefined">> THEN Throw
                 ELSE Ok(context["input"].title)
          [] body = <<"stream.index">> ->
                 IF has("stream") THEN Ok(StringOf(context["stream"].index)) ELSE Throw
          [] body = <<"stream.language">> ->
                 IF has("stream") THEN Ok(<<"und">>) ELSE Throw
          [] body = <<"stream.label">> ->
                 IF has("stream") THEN Ok(<<>>) ELSE Throw
          [] body = <<"outputStream.index">> ->
                 IF has("outputStream") THEN Ok(StringOf(context["outputStream"].index))
                 ELSE Throw
          [] body = <<"chapter.number">> ->
                 IF has("chapter") THEN Ok(StringOf(context["chapter"].number)) ELSE Throw
          [] OTHER -> Throw

\* the index of the last token of the match of REGEX_EXECUTABLE
\* /{{((?:(?!{{).)*)}}/ that starts at the head of s (0: no match there);
\* the body is greedy
ExecutableEnd(s) ==
    LET J == {j \in 3..(Len(s) - 1) :
                 /\ s[j] = "}" /\ s[j + 1] = "}"
                 /\ \A k \in 3..(j - 1) :
                        s[k] # NL /\ ~(s[k] = "{" /\ s[k + 1] = "{")}
    IN  IF Len(s) >= 4 /\ s[1] = "{" /\ s[2] = "{" /\ J # {} THEN Max(J) + 1 ELSE 0

HasExecutable(s) == \E i \in 1..Len(s) : ExecutableEnd(SubSeq(s, i, Len(s))) > 0

\* FunctionSnippetResolver.resolve
RECURSIVE FunctionSnippetResolver(_, _)
FunctionSnippetResolver(snippet, context) ==
    IF snippet = <<>> THEN Ok(<<>>)
    ELSE IF ExecutableEnd(snippet) = 0
    THEN Then(FunctionSnippetResolver(Tail(snippet), context),
              LAMBDA r : Ok(<<snippet[1]>> \o r))
    ELSE Then(parseFunction(Trim(SubSeq(snippet, 3, ExecutableEnd(snippet) - 2)), context),
              LAMBDA v :
         Then(FunctionSnippetResolver(
                  SubSeq(snippet, ExecutableEnd(snippet) + 1, Len(snippet)), context),
              LAMBDA r : Ok(v \o r)))

\* the shortcuts, in declaration order (lng and label by the value they
\* compute from the stream)
shortcuts ==
    << [snippet |-> "iid",
        replacement |-> <<"{", "{", "input.id", "}", "}", ":",
                          "{", "{", "stream.index", "}", "}">>],
       [snippet |-> "oid",
        replacement |-> <<"{", "{", "outputStream.index", "}", "}">>],
       [snippet |-> "fn",
        replacement |-> <<"{", "{", "input.path.filename", "}", "}">>],
       [snippet |-> "lng",
        replacement |-> <<"{", "{", "stream.language", "}", "}">>],
       [snippet |-> "label",
        replacement |-> <<"{", "{", "stream.label", "}", "}">>] >>

\* the match of /{([\._-])?name([\._-])?}/ at the head of s: its length
\* (0: no match) and its two groups
ShortcutMatch(s, name) ==
    LET pre  == IF Len(s) >= 2 /\ s[2] \in Seps THEN <<s[2]>> ELSE <<>>
        p    == 2 + Len(pre)
        post == IF Len(s) >= p + 1 /\ s[p + 1] \in Seps THEN <<s[p + 1]>> ELSE <<>>
        q    == p + 1 + Len(post)
    IN  IF Len(s) >= q /\ s[1] = "{" /\ s[p] = name /\ s[q] = "}"
        THEN [len |-> q, pre |-> pre, post |-> post]
        ELSE [len |-> 0, pre |-> <<>>, post |-> <<>>]

\* result.replace(regexp, replacement ? `$1${replacement}$2` : '')
RECURSIVE ReplaceShortcut(_, _, _)
ReplaceShortcut(s, name, replacement) ==
    IF s = <<>> THEN <<>>
    ELSE LET m == ShortcutMatch(s, name)
         IN  IF m.len = 0
             THEN <<s[1]>> \o ReplaceShortcut(Tail(s), name, replacement)
             ELSE (IF replacement = <<>> THEN <<>> ELSE m.pre \o replacement \o m.post)
                  \o ReplaceShortcut(SubSeq(s, m.len + 1, Len(s)), name, replacement)

\* ShortcutSnippetResolver.resolveShortcut
resolveShortcut(snippet, context, shortcut) ==
    IF \E i \in 1..Len(snippet) :
           ShortcutMatch(SubSeq(snippet, i, Len(snippet)), shortcut.snippet).len > 0
    THEN Then(IF HasExecutable(shortcut.replacement)
              THEN FunctionSnippetResolver(shortcut.replacement, context)
              ELSE Ok(shortcut.replacement),
              LAMBDA replacement :
                  Ok(ReplaceShortcut(snippet, shortcut.snippet, replacement)))
    ELSE Ok(snippet)

\* ShortcutSnippetResolver.resolve: shortcuts.reduce(...)
RECURSIVE ShortcutSnippetResolver(_, _, _)
ShortcutSnippetResolver(snippet, context, i) ==
    IF i > Len(shortcuts) THEN Ok(snippet)
    ELSE Then(resolveShortcut(snippet, context, shortcuts[i]),
              LAMBDA r : ShortcutSnippetResolver(r, context, i + 1))

\* DefaultSnippetResolver.resolve
resolve(snippet, context) ==
    Then(ShortcutSnippetResolver(NumberSnippetResolver(BooleanSnippetResolver(snippet)),
                                 context, 1),
         LAMBDA r2 :
    Then(FunctionSnippetResolver(r2, context),
         LAMBDA r3 : checkComplete(r3)))

\* --------------------------------------------------------- profile mapper
\* Task.on: unset, one value ('none', 'chapters', 'all' or a codec type) or
\* an array of codec types
OnUnset == [kind |-> "unset", value |-> "", values |-> {}]
On(v) == [kind |-> "value", value |-> v, values |-> {}]
OnArray(S) == [kind |-> "array", value |-> "", values |-> S]

\* {...context, k: v}
Spread(context, k, v) ==
    [x \in DOMAIN context \cup {k} |-> IF x = k THEN v ELSE context[x]]

\* a.concat(...b) over a sequence of arrays
RECURSIVE Concat(_)
Concat(ss) == IF ss = <<>> THEN <<>> ELSE Head(ss) \o Concat(Tail(ss))

\* parsePredicate(when)(context): an unset 'when' is the constant true; the
\* predicates the profiles use:
parsePredicate(when, context) ==
    LET has(k) == k \in DOMAIN context
    IN  CASE when = "" -> Ok(TRUE)
          [] when = "true" -> Ok(TRUE)
          [] when = "false" -> Ok(FALSE)
          [] when = "stream.codec_type !== 'subtitle'" ->
                 IF has("stream") THEN Ok(context["stream"].codec_type # "subtitle")
                 ELSE Throw
          [] when = "chapter.number > 1" ->
                 IF has("chapter") THEN Ok(context["chapter"].number > 1) ELSE Throw
          [] OTHER -> Throw

\* disabledCodecsByOption
disabledCodecsByOption ==
    << [key |-> "vn", value |-> "video"], [key |-> "an", value |-> "audio"],
       [key |-> "sn", value |-> "subtitle"], [key |-> "dn", value |-> "data"] >>

\* MappingBuilder.isDisabled
isDisabled(params, stream) ==
    \E i \in 1..Len(disabledCodecsByOption) :
        /\ <<"-" \o disabledCodecsByOption[i].key>> \in Range(params)
        /\ disabledCodecsByOption[i].value = stream.codec_type

\* MappingBuilder.match
match(context, task, stream) ==
    IF \/ (task.on.kind = "value" /\ task.on.value \in {"all", stream.codec_type})
       \/ (task.on.kind = "array" /\ stream.codec_type \in task.on.values)
    THEN parsePredicate(task.when, Spread(context, "stream", stream))
    ELSE Ok(FALSE)

\* getGlobalParameters: options.filter(o => !o.on || o.on === 'none')
\*                             .filter(o => parsePredicate(o.when)(context))
RECURSIVE GlobalOptions(_, _)
GlobalOptions(options, context) ==
    IF options = <<>> THEN Ok(<<>>)
    ELSE Then(IF \/ Head(options).on.kind = "unset"
                 \/ (Head(options).on.kind = "value" /\ Head(options).on.value = "none")
              THEN parsePredicate(Head(options).when, context)
              ELSE Ok(FALSE),
              LAMBDA keep :
         Then(GlobalOptions(Tail(options), context),
              LAMBDA rest : Ok((IF keep THEN <<Head(options)>> ELSE <<>>) \o rest)))

\* MappingBuilder.getGlobalParameters
getGlobalParameters(context, mapping) ==
    Then(GlobalOptions(mapping.options, context),
         LAMBDA options :
             Ok(mapping.params \o Concat([i \in 1..Len(options) |-> options[i].params])))

\* getOptions: mapping.options.filter(o => MappingBuilder.match(context, o, stream))
RECURSIVE MatchingOptions(_, _, _)
MatchingOptions(context, stream, options) ==
    IF options = <<>> THEN Ok(<<>>)
    ELSE Then(match(context, Head(options), stream),
              LAMBDA keep :
         Then(MatchingOptions(context, stream, Tail(options)),
              LAMBDA rest : Ok((IF keep THEN <<Head(options)>> ELSE <<>>) \o rest)))

\* MappingBuilder.getOptions
getOptions(context, stream, mapping) ==
    MatchingOptions(context, stream, mapping.options)

\* the comparator of getInputStreams: the place of a codec type in order,
\* types that are not listed after all the listed ones
OrderKey(order, type) == IF IndexOf(order, type) = 0 THEN Len(order) + 1 ELSE IndexOf(order, type)

RECURSIVE InsertByOrder(_, _, _)
InsertByOrder(x, s, order) ==
    IF s = <<>> THEN <<x>>
    ELSE IF OrderKey(order, x.codec_type) < OrderKey(order, s[1].codec_type)
         THEN <<x>> \o s
         ELSE <<s[1]>> \o InsertByOrder(x, Tail(s), order)

\* streams.sort(comparator): stable
RECURSIVE SortByOrder(_, _)
SortByOrder(s, order) ==
    IF s = <<>> THEN <<>>
    ELSE InsertByOrder(Head(s), SortByOrder(Tail(s), order), order)

\* MappingBuilder.getInputStreams
getInputStreams(context, parameters, mapping) ==
    LET streams == SelectSeq(context["input"].streams,
                             LAMBDA st : ~isDisabled(parameters, st))
    IN  IF Len(streams) > 1 /\ mapping.order # <<>>
        THEN SortByOrder(streams, mapping.order)
        ELSE streams

\* extensionsByCodecName
extensionsByCodecName == << [key |-> "subrip", value |-> <<"srt">>] >>

DefaultExtension == <<"mkv">>

\* MappingBuilder.resolvePathExtension
resolvePathExtension(context, mapping) ==
    IF mapping.format # <<>> THEN mapping.format
    ELSE IF Len(context["output"].streams) = 1 /\ "stream" \in DOMAIN context
    THEN LET codecName == context["stream"].codec_name
             extensions == SelectSeq(extensionsByCodecName, LAMBDA ec : ec.key = codecName)
         IN  IF Len(extensions) > 0 THEN extensions[1].value ELSE <<codecName>>
    ELSE DefaultExtension

\* MappingBuilder.resolvePath: Path.fromSnippet(mapping.output, context, extension)
MappingResolvePath(context, mapping) ==
    Then(resolve(mapping.output, context),
         LAMBDA filename :
             Ok([parent    |-> context["input"].parent,
                 filename  |-> filename,
                 extension |-> resolvePathExtension(context, mapping)]))

\* new OutputMedia(id, source)
NewOutputMedia(id) == [id |-> id, params |-> <<>>, streams |-> <<>>, path |-> <<>>]

\* SingleMappingBuilder.build: the output streams of one input stream that is
\* not excluded: one per 'duplicate' option, then the stream itself with the
\* params of the other options
OutputStreams(s, options, streamId) ==
    LET dups == SelectSeq(options, LAMBDA o : o.duplicate)
        own  == SelectSeq(options, LAMBDA o : ~o.duplicate)
    IN  [i \in 1..Len(dups) |->
            [index |-> streamId + i - 1, source |-> s, params |-> dups[i].params]]
        \o <<[index |-> streamId + Len(dups), source |-> s,
              params |-> Concat([i \in 1..Len(own) |-> own[i].params])]>>

\* (variant: the index of a stream is consumed before the exclusion test)
RECURSIVE SingleStreamsCountExcluded(_, _, _, _)
SingleStreamsCountExcluded(context, mapping, inputStreams, streamId) ==
    IF inputStreams = <<>> THEN Ok(<<>>)
    ELSE Then(getOptions(context, Head(inputStreams), mapping),
              LAMBDA options :
         IF \E i \in 1..Len(options) : options[i].exclude
         THEN SingleStreamsCountExcluded(context, mapping, Tail(inputStreams), streamId + 1)
         ELSE Then(SingleStreamsCountExcluded(context, mapping, Tail(inputStreams),
                       streamId + Len(OutputStreams(Head(inputStreams), options, streamId))),
                   LAMBDA rest :
                       Ok(OutputStreams(Head(inputStreams), options, streamId) \o rest)))

\* (variant: the duplicates are appended before the exclusion test)
RECURSIVE SingleStreamsDuplicateExcluded(_, _, _, _)
SingleStreamsDuplicateExcluded(context, mapping, inputStreams, streamId) ==
    IF inputStreams = <<>> THEN Ok(<<>>)
    ELSE Then(getOptions(context, Head(inputStreams), mapping),
              LAMBDA options :
         IF \E i \in 1..Len(options) : options[i].exclude
         THEN Then(SingleStreamsDuplicateExcluded(context, mapping, Tail(inputStreams),
                       streamId + Len(OutputStreams(Head(inputStreams), options, streamId))
                                - 1),
                   LAMBDA rest :
                       Ok(SubSeq(OutputStreams(Head(inputStreams), options, streamId), 1,
                                 Len(OutputStreams(Head(inputStreams), options, streamId)) - 1)
                          \o rest))
         ELSE Then(SingleStreamsDuplicateExcluded(context, mapping, Tail(inputStreams),
                       streamId + Len(OutputStreams(Head(inputStreams), options, streamId))),
                   LAMBDA rest :
                       Ok(OutputStreams(Head(inputStreams), options, streamId) \o rest)))

\* SingleMappingBuilder.build: the loop over the input streams
RECURSIVE SingleStreams(_, _, _, _)
SingleStreams(context, mapping, inputStreams, streamId) ==
    IF inputStreams = <<>> THEN Ok(<<>>)
    ELSE Then(getOptions(context, Head(inputStreams), mapping),
              LAMBDA options :
         IF \E i \in 1..Len(options) : options[i].exclude
         THEN SingleStreams(context, mapping, Tail(inputStreams), streamId)
         ELSE Then(SingleStreams(context, mapping, Tail(inputStreams),
                       streamId + Len(OutputStreams(Head(inputStreams), options, streamId))),
                   LAMBDA rest :
                       Ok(OutputStreams(Head(inputStreams), options, streamId) \o rest)))

\* SingleMappingBuilder.build
SingleMappingBuilder(context, mapping, outputId) ==
    Then(parsePredicate(mapping.when, context),
         LAMBDA when :
    IF ~when THEN Ok(<<>>)
    ELSE Then(getGlobalParameters(Spread(context, "output", NewOutputMedia(outputId)),
                                  mapping),
              LAMBDA globalParameters :
         Then(SingleStreams(Spread(context, "output", NewOutputMedia(outputId)), mapping,
                            getInputStreams(Spread(context, "output",
                                                   NewOutputMedia(outputId)),
                                            globalParameters, mapping),
                            0),
              LAMBDA streams :
         IF Len(streams) = 0 THEN Ok(<<>>)
         ELSE Then(MappingResolvePath(
                       Spread(context, "output",
                              [NewOutputMedia(outputId) EXCEPT !.streams = streams]),
                       mapping),
                   LAMBDA path :
                       Ok(<<[NewOutputMedia(outputId) EXCEPT !.streams = streams,
                                                             !.params = globalParameters,
                                                             !.path = path]>>)))))

\* ManyMappingBuilder.getInputStreams: .filter(s => MappingBuilder.match(context, task, s))
RECURSIVE MatchingStreams(_, _, _)
MatchingStreams(context, task, streams) ==
    IF streams = <<>> THEN Ok(<<>>)
    ELSE Then(match(context, task, Head(streams)),
              LAMBDA keep :
         Then(MatchingStreams(context, task, Tail(streams)),
              LAMBDA rest : Ok((IF keep THEN <<Head(streams)>> ELSE <<>>) \o rest)))

\* ManyMappingBuilder.getInputStreams
ManyGetInputStreams(context, parameters, mapping) ==
    MatchingStreams(context, mapping, getInputStreams(context, parameters, mapping))

\* ManyMappingBuilder.build: the output of one stream, before its path
ManyOutput(outputId, s, globalParameters) ==
    [NewOutputMedia(outputId) EXCEPT !.streams =
        <<[index |-> 0, source |-> s, params |-> globalParameters]>>]

\* ManyMappingBuilder.build: inputStreams.map(...)
RECURSIVE ManyOutputs(_, _, _, _, _)
ManyOutputs(context, mapping, globalParameters, inputStreams, outputId) ==
    IF inputStreams = <<>> THEN Ok(<<>>)
    ELSE Then(MappingResolvePath(
                  Spread(Spread(context, "output",
                                ManyOutput(outputId, Head(inputStreams), globalParameters)),
                         "stream", Head(inputStreams)),
                  mapping),
              LAMBDA path :
         Then(ManyOutputs(context, mapping, globalParameters, Tail(inputStreams),
                          outputId + 1),
              LAMBDA rest :
                  Ok(<<[ManyOutput(outputId, Head(inputStreams), globalParameters)
                           EXCEPT !.path = path]>> \o rest)))

\* ManyMappingBuilder.build
ManyMappingBuilder(context, mapping, outputId) ==
    Then(getGlobalParameters(context, mapping),
         LAMBDA globalParameters :
    Then(ManyGetInputStreams(context, globalParameters, mapping),
         LAMBDA inputStreams :
             ManyOutputs(context, mapping, globalParameters, inputStreams, outputId)))

\* params.map(p => resolver.resolve(p, context).toString())
RECURSIVE ResolveParams(_, _)
ResolveParams(params, context) ==
    IF params = <<>> THEN Ok(<<>>)
    ELSE Then(resolve(Head(params), context),
              LAMBDA p :
         Then(ResolveParams(Tail(params), context),
              LAMBDA rest : Ok(<<p>> \o rest)))

\* o.streams.forEach(os => os.params = os.params.map(...))
RECURSIVE ResolveStreams(_, _)
ResolveStreams(streams, context) ==
    IF streams = <<>> THEN Ok(<<>>)
    ELSE Then(ResolveParams(Head(streams).params,
                            Spread(Spread(context, "stream", Head(streams).source),
                                   "outputStream", Head(streams))),
              LAMBDA ps :
         Then(ResolveStreams(Tail(streams), context),
              LAMBDA rest : Ok(<<[Head(streams) EXCEPT !.params = ps]>> \o rest)))

\* resolveOutputParameters
resolveOutputParameters(o, context) ==
    Then(ResolveParams(o.params, Spread(context, "output", o)),
         LAMBDA params :
    Then(ResolveStreams(o.streams, Spread(context, "output", o)),
         LAMBDA streams :
             Ok([o EXCEPT !.params = params, !.streams = streams])))

\* outputs.map(o => resolveOutputParameters(o, context))
RECURSIVE ResolveOutputs(_, _)
ResolveOutputs(outputs, context) ==
    IF outputs = <<>> THEN Ok(<<>>)
    ELSE Then(resolveOutputParameters(Head(outputs), context),
              LAMBDA o :
         Then(ResolveOutputs(Tail(outputs), context),
              LAMBDA rest : Ok(<<o>> \o rest)))

\* ChapterMappingBuilder.createChapter
createChapter(previousChapter, duration) ==
    [start_time |-> previousChapter.end_time, end_time |-> duration]

\* c.number = n on a chapter object
Numbered(c, n) ==
    [f \in DOMAIN c \cup {"number"} |-> IF f = "number" THEN n ELSE c[f]]

\* (variant: the dummy chapter is added whatever the end of the last chapter)
getChaptersAlwaysAdds(context) ==
    LET chapters == context["input"].chapters
        all == IF chapters = <<>> THEN <<>>
               ELSE Append(chapters, createChapter(chapters[Len(chapters)],
                                                   context["input"].duration))
    IN  [i \in 1..Len(all) |-> Numbered(all[i], i)]

\* ChapterMappingBuilder.getChapters
getChapters(context) ==
    LET chapters == context["input"].chapters
        all == IF chapters = <<>> THEN <<>>
               ELSE IF chapters[Len(chapters)].end_time # context["input"].duration
               THEN Append(chapters, createChapter(chapters[Len(chapters)],
                                                   context["input"].duration))
               ELSE chapters
    IN  [i \in 1..Len(all) |-> Numbered(all[i], i)]

\* (variant: the chapter loop does not advance outputId)
RECURSIVE ChapterOutputsSameId(_, _, _, _)
ChapterOutputsSameId(context, mapping, chapters, outputId) ==
    IF chapters = <<>> THEN Ok(<<>>)
    ELSE Then(SingleMappingBuilder(Spread(context, "chapter", Head(chapters)), mapping,
                                   outputId),
              LAMBDA built :
         Then(ResolveOutputs(built, Spread(context, "chapter", Head(chapters))),
              LAMBDA outputs :
         Then(ChapterOutputsSameId(context, mapping, Tail(chapters), outputId),
              LAMBDA rest : Ok(outputs \o rest))))

\* ChapterMappingBuilder.build: chapters.map(...).reduce(...)
RECURSIVE ChapterOutputs(_, _, _, _)
ChapterOutputs(context, mapping, chapters, outputId) ==
    IF chapters = <<>> THEN Ok(<<>>)
    ELSE Then(SingleMappingBuilder(Spread(context, "chapter", Head(chapters)), mapping,
                                   outputId),
              LAMBDA built :
         Then(ResolveOutputs(built, Spread(context, "chapter", Head(chapters))),
              LAMBDA outputs :
         Then(ChapterOutputs(context, mapping, Tail(chapters), outputId + Len(outputs)),
              LAMBDA rest : Ok(outputs \o rest))))

\* ChapterMappingBuilder.build
ChapterMappingBuilder(context, mapping, outputId) ==
    ChapterOutputs(context, mapping, getChapters(context), outputId)

\* createBuilder(config, mapping).build(context, outputId)
createBuilder(context, mapping, outputId) ==
    IF mapping.on.kind = "unset" \/ (mapping.on.kind = "value" /\ mapping.on.value = "none")
    THEN SingleMappingBuilder(context, mapping, outputId)
    ELSE IF mapping.on.kind = "value" /\ mapping.on.value = "chapters"
    THEN ChapterMappingBuilder(context, mapping, outputId)
    ELSE ManyMappingBuilder(context, mapping, outputId)

\* OutputMediaBuilder.build: mappings.map(...).reduce(...)
RECURSIVE BuildMappings(_, _, _)
BuildMappings(context, mappings, outputId) ==
    IF mappings = <<>> THEN Ok(<<>>)
    ELSE Then(createBuilder(context, Head(mappings), outputId),
              LAMBDA output :
         Then(BuildMappings(context, Tail(mappings), outputId + Len(output)),
              LAMBDA rest : Ok(output \o rest)))

\* os.params.unshift('-map {iid}') for every stream of every output
UnshiftMap(outputs) ==
    [i \in 1..Len(outputs) |->
        [outputs[i] EXCEPT !.streams =
            [j \in 1..Len(outputs[i].streams) |->
                [outputs[i].streams[j] EXCEPT !.params =
                    << <<"-map", " ", "{", "iid", "}">> >> \o @]]]]

NoOutput == "No output: skip"

\* reject(reason) called in the executor
Rejected(reason) == [ok |-> FALSE, val |-> <<reason>>]

\* the promise of OutputMediaBuilder.build: resolve(outputs), reject(reason),
\* and an exception in the executor rejects with the error
Settled(r) ==
    IF r.ok THEN [settled |-> "resolve", reason |-> "", outputs |-> r.val]
    ELSE IF r.val = <<>> THEN [settled |-> "reject", reason |-> "Error", outputs |-> <<>>]
    ELSE [settled |-> "reject", reason |-> r.val[1], outputs |-> <<>>]

\* (variant: an empty plan is returned as it is)
OutputMediaBuilderAcceptsEmpty(media, mappings) ==
    Settled(Then(BuildMappings([k \in {"input"} |-> media], mappings, 0),
                 LAMBDA outputs :
                     ResolveOutputs(UnshiftMap(outputs), [k \in {"input"} |-> media])))

\* OutputMediaBuilder.build: an exception in the executor rejects the promise
OutputMediaBuilder(media, mappings) ==
    Settled(Then(BuildMappings([k \in {"input"} |-> media], mappings, 0),
                 LAMBDA outputs :
                     IF Len(outputs) = 0 THEN Rejected(NoOutput)
                     ELSE ResolveOutputs(UnshiftMap(outputs), [k \in {"input"} |-> media])))

\* ------------------------------------------------- Worker: the command
\* a.trim().split(/\s+/): the arguments of one option string
RECURSIVE SplitArgs(_)
SplitArgs(a) ==
    IF Trim(a) = <<>> THEN << <<>> >>
    ELSE IF IndexOf(Trim(a), " ") = 0 THEN <<Trim(a)>>
    ELSE <<SubSeq(Trim(a), 1, IndexOf(Trim(a), " ") - 1)>>
         \o SplitArgs(SubSeq(Trim(a), IndexOf(Trim(a), " ") + 1, Len(Trim(a))))

\* options.map(a => a.trim().split(/\s+/)).reduce((a, b) => a.concat(...b), [])
RECURSIVE SplitOptions(_)
SplitOptions(options) ==
    IF options = <<>> THEN <<>>
    ELSE SplitArgs(Head(options)) \o SplitOptions(Tail(options))

\* appendArgs: setFile(command, file), then setOptions(command, ...) when
\* there are options; the command is the sequence of the calls made on it
appendArgs(command, file, options, setFile, setOptions) ==
    command \o <<[call |-> setFile, args |-> <<file>>]>>
            \o (IF Len(options) > 0
                THEN <<[call |-> setOptions, args |-> SplitOptions(options)]>>
                ELSE <<>>)

\* Worker.appendInput
appendInput(input, command) ==
    appendArgs(command, resolvePath(input.path, InputDirectory), input.params,
               "input", "inputOption")

\* Worker.appendOutput
appendOutput(output, command) ==
    appendArgs(command, resolvePath(output.path, OutputDirectory),
               output.params
                   \o Concat([j \in 1..Len(output.streams) |-> output.streams[j].params]),
               "output", "outputOption")

\* this.outputs.reduce((c, o) => this.appendOutput(o, c), ...)
RECURSIVE AppendOutputs(_, _)
AppendOutputs(outputs, command) ==
    IF outputs = <<>> THEN command
    ELSE AppendOutputs(Tail(outputs), appendOutput(Head(outputs), command))

\* Worker.execute: the command it builds from the context
BuildCommand(input, outputs) == AppendOutputs(outputs, appendInput(input, <<>>))

\* ------------------------------------- the process function on one input
MaxMappings == 2

\* options of the mappings below
OptExcludeSubtitle ==
    [on |-> On("subtitle"), skip |-> FALSE, when |-> "", exclude |-> TRUE, duplicate |-> FALSE,
     params |-> <<>>]
OptDuplicateVideo ==
    [on |-> On("video"), skip |-> FALSE, when |-> "", exclude |-> FALSE, duplicate |-> TRUE,
     params |-> << <<"-c:", "{", "oid", "}", " ", "libx264">> >>]
OptCopy ==
    [on |-> On("all"), skip |-> FALSE, when |-> "stream.codec_type !== 'subtitle'", exclude |-> FALSE,
     duplicate |-> FALSE, params |-> << <<"-c:", "{", "oid", "}", " ", "copy">> >>]
OptDuplicateSubtitle ==
    [on |-> On("subtitle"), skip |-> FALSE, when |-> "", exclude |-> FALSE, duplicate |-> TRUE,
     params |-> << <<"-c:", "{", "oid", "}", " ", "srt">> >>]
OptExcludeAll ==
    [on |-> On("all"), skip |-> FALSE, when |-> "", exclude |-> TRUE, duplicate |-> FALSE,
     params |-> <<>>]
OptNoAudio ==
    [on |-> On("none"), skip |-> FALSE, when |-> "", exclude |-> FALSE, duplicate |-> FALSE,
     params |-> << <<"-an">> >>]
OptThreads ==
    [on |-> On("none"), skip |-> FALSE, when |-> "", exclude |-> FALSE, duplicate |-> FALSE,
     params |-> << <<"-threads", " ", "2">> >>]

\* a mapping with the defaults for what it does not set
MappingOf(id, on, when, params, options, output) ==
    [id |-> id, skip |-> FALSE, on |-> on, when |-> when, params |-> params,
     options |-> options, format |-> <<>>, order |-> <<"subtitle", "audio", "video">>, output |-> output]

\* the mappings a profile is made of: single without options, single (with
\* excluded and duplicated streams), single with a false 'when', single that
\* keeps no stream, chapters, per stream, and two whose params hold a
\* snippet that the resolver does not resolve
ProfileMappings ==
    { MappingOf("plain", OnUnset, "", <<>>, <<>>, <<"{", "fn", "}">>),
      MappingOf("single", OnUnset, "", << <<"-y">> >>,
                <<OptExcludeSubtitle, OptDuplicateSubtitle, OptDuplicateVideo, OptCopy>>, <<"{", "fn", "}">>),
      MappingOf("never", On("none"), "false", <<>>, <<>>, <<"{", "fn", "}">>),
      MappingOf("empty", OnUnset, "", <<>>, <<OptNoAudio, OptExcludeAll>>,
                <<"{", "fn", "}">>),
      MappingOf("chapters", On("chapters"), "chapter.number > 1",
                << <<"-metadata", " ", "track=", "{", "{", "chapter.number", "}", "}">> >>,
                <<OptCopy>>,
                <<"{", "fn", "}", "-", "{", "{", "chapter.number", "}", "}">>),
      MappingOf("streams", OnArray({"audio", "subtitle"}), "", << <<"-c", " ", "copy">> >>,
                <<OptThreads, OptCopy>>, <<"{", "fn", "}", "{", ".", "lng", "}">>),
      MappingOf("unknown", OnUnset, "", << <<"-metadata", " ", "{", "unknown", "}">> >>,
                <<>>, <<"{", "fn", "}">>),
      MappingOf("multiline", OnUnset, "",
                << <<"-metadata", " ", "id=", "{", "{", "input.id", NL, "}", "}">> >>,
                <<>>, <<"{", "fn", "}">>) }

\* profile.output.mappings: up to MaxMappings mappings
Profiles ==
    UNION {[1..n -> ProfileMappings] : n \in 1..MaxMappings}

\* the streams and chapters ffprobe reports
ProbedStreams ==
    { << [index |-> 0, codec_type |-> "video", codec_name |-> "h264"] >>,
      << [index |-> 0, codec_type |-> "video", codec_name |-> "h264"],
         [index |-> 1, codec_type |-> "audio", codec_name |-> "aac"] >>,
      << [index |-> 0, codec_type |-> "video", codec_name |-> "h264"],
         [index |-> 1, codec_type |-> "audio", codec_name |-> "aac"],
         [index |-> 2, codec_type |-> "subtitle", codec_name |-> "subrip"] >> }

ProbedDuration == 10
ProbedChapters ==
    { <<>>, << [end_time |-> 10] >>, << [end_time |-> 5] >>,
      << [end_time |-> 5], [end_time |-> 10] >>,
      << [end_time |-> 3], [end_time |-> 6] >> }

\* profile.input.params
InputParams == << <<"-hwaccel", " ", "auto">> >>

\* new InputMedia(0, Path.fromFile(directory, file), params, metadata)
NewInputMedia(file, streams, chapters) ==
    [id |-> 0,
     path |-> PathFromFile(InputDirectory, file),
     params |-> InputParams,
     parent |-> PathFromFile(InputDirectory, file).parent,
     filename |-> PathFromFile(InputDirectory, file).filename,
     title |-> <<"undefined">>,
     streams |-> streams,
     chapters |-> chapters,
     duration |-> ProbedDuration]

\* the builders reach ChapterMappingBuilder.getChapters: a chapters mapping
\* follows mappings whose builders return
RECURSIVE ChaptersReached(_, _, _)
ChaptersReached(context, mappings, outputId) ==
    IF mappings = <<>> THEN Ok(FALSE)
    ELSE IF Head(mappings).on.kind = "value" /\ Head(mappings).on.value = "chapters"
    THEN Ok(TRUE)
    ELSE Then(createBuilder(context, Head(mappings), outputId),
              LAMBDA output :
                  ChaptersReached(context, Tail(mappings), outputId + Len(output)))

\* the InputMedia after OutputMediaBuilder.build: getChapters numbers the
\* chapter objects of the input, which its copy of the array shares
InputAfterBuild(media, mappings) ==
    IF ChaptersReached([k \in {"input"} |-> media], mappings, 0) = Ok(TRUE)
    THEN [media EXCEPT !.chapters = [i \in 1..Len(@) |-> Numbered(@[i], i)]]
    ELSE media

\* mapper.apply(file): OutputMediaBuilder.build on the probed input
MapperApply ==
    /\ mapper.stage = "probed"
    /\ mapper' = [mapper EXCEPT !.stage = "applied",
                                !.input = InputAfterBuild(mapper.input, mapper.mappings),
                                !.plan = OutputMediaBuilder(mapper.input, mapper.mappings)]
    /\ UNCHANGED <<schedVars, workVars, worker, fsVars, histVars, watchVars>>

\* .then(context => new Worker(context).execute())
ProcessThen ==
    /\ mapper.stage = "applied"
    /\ mapper.plan.settled = "resolve"
    /\ mapper' = [mapper EXCEPT !.stage = "running", !.workers = @ + 1,
                                !.command = BuildCommand(mapper.input,
                                                         mapper.plan.outputs)]
    /\ UNCHANGED <<schedVars, workVars, worker, fsVars, histVars, watchVars>>

\* .catch(reason => callback(reason))
ProcessCatch ==
    /\ mapper.stage = "applied"
    /\ mapper.plan.settled = "reject"
    /\ mapper' = [mapper EXCEPT !.stage = "failed",
                                !.callbacks = Append(@, mapper.plan.reason)]
    /\ UNCHANGED <<schedVars, workVars, worker, fsVars, histVars, watchVars>>

MapperInit ==
    /\ InitWith([exists |-> FALSE, lines |-> <<>>])
    /\ deleteAfterProcess = FALSE
    /\ worker = NoWorker
    /\ filterRun = NoFilterRun
    /\ ownerWalk = NoOwnerWalk
    /\ pathTrip = NoPathTrip
    /\ \E mappings \in Profiles, streams \in ProbedStreams, chapters \in ProbedChapters :
           mapper = [NoMapper EXCEPT !.mappings = mappings,
                                     !.input = NewInputMedia(FileA, streams, chapters),
                                     !.probed = NewInputMedia(FileA, streams, chapters),
                                     !.stage = "probed"]

MapperNext ==
    \/ MapperApply
    \/ ProcessThen
    \/ ProcessCatch

MapperSpec == MapperInit /\ [][MapperNext]_vars

\* the process function on profiles made of one chapters mapping, with and
\* without a 'when', and on inputs with up to three chapters
ChapterMappings ==
    { MappingOf("chapters", On("chapters"), "chapter.number > 1",
                << <<"-metadata", " ", "track=", "{", "{", "chapter.number", "}", "}">> >>,
                <<OptCopy>>,
                <<"{", "fn", "}", "-", "{", "{", "chapter.number", "}", "}">>),
      MappingOf("everychapter", On("chapters"), "",
                << <<"-metadata", " ", "track=", "{", "{", "chapter.number", "}", "}">> >>,
                <<OptCopy>>,
                <<"{", "fn", "}", "-", "{", "{", "chapter.number", "}", "}">>) }

ChapterLists ==
    ProbedChapters \cup
    { << [end_time |-> 3], [end_time |-> 6], [end_time |-> 10] >>,
      << [end_time |-> 3], [end_time |-> 6], [end_time |-> 9] >>,
      << [end_time |-> 12] >> }

ChapterInit ==
    /\ InitWith([exists |-> FALSE, lines |-> <<>>])
    /\ deleteAfterProcess = FALSE
    /\ worker = NoWorker
    /\ filterRun = NoFilterRun
    /\ ownerWalk = NoOwnerWalk
    /\ pathTrip = NoPathTrip
    /\ \E mapping \in ChapterMappings, streams \in ProbedStreams, chapters \in ChapterLists :
           mapper = [NoMapper EXCEPT !.mappings = <<mapping>>,
                                     !.input = NewInputMedia(FileA, streams, chapters),
                                     !.probed = NewInputMedia(FileA, streams, chapters),
                                     !.stage = "probed"]

ChapterSpec == ChapterInit /\ [][MapperNext]_vars

\* ------------------------------------------------------- ProfileValidator
\* (variant: clean leaves the options as they are)
cleanKeepsOptions(profile) ==
    [profile EXCEPT !.mappings = SelectSeq(@, LAMBDA m : ~m.skip)]

\* ProfileValidator.clean: the mappings and then the options with skip are
\* removed
clean(profile) ==
    LET mappings == SelectSeq(profile.mappings, LAMBDA m : ~m.skip)
    IN  [profile EXCEPT !.mappings =
            [i \in 1..Len(mappings) |->
                [mappings[i] EXCEPT !.options = SelectSeq(@, LAMBDA o : ~o.skip)]]]

\* ProfileValidator.validate, on a profile that has its input and output
\* sections: the profile after clean(), or an Error thrown
validate(profile) ==
    IF ~clean(profile).include.set /\ ~clean(profile).exclude.set THEN Throw
    ELSE IF Len(clean(profile).mappings) = 0 THEN Throw
    ELSE IF \E i \in 1..Len(clean(profile).mappings) :
                clean(profile).mappings[i].output = <<>>
    THEN Throw
    ELSE Ok(clean(profile))

\* the mappings of the profiles as loaded: with and without skip, with an
\* option with skip, without output, and one that yields no output
OptSkipped ==
    [on |-> On("all"), skip |-> TRUE, when |-> "", exclude |-> FALSE,
     duplicate |-> FALSE, params |-> << <<"-skipped">> >>]

LoadedMappings ==
    { MappingOf("plain", OnUnset, "", <<>>, <<>>, <<"{", "fn", "}">>),
      MappingOf("skippedoption", OnUnset, "", <<>>, <<OptSkipped, OptCopy>>,
                <<"{", "fn", "}">>),
      [MappingOf("skipped", OnUnset, "", << <<"-skipped">> >>, <<>>, <<"{", "fn", "}">>)
          EXCEPT !.skip = TRUE],
      [MappingOf("skippednooutput", OnUnset, "", << <<"-skipped">> >>, <<>>, <<>>)
          EXCEPT !.skip = TRUE],
      MappingOf("nooutput", OnUnset, "", <<>>, <<>>, <<>>),
      MappingOf("never", On("none"), "false", <<>>, <<>>, <<"{", "fn", "}">>) }

LoadedProfiles ==
    {[include |-> include, exclude |-> Unset, mappings |-> mappings] :
        include \in {Unset, Include},
        mappings \in UNION {[1..n -> LoadedMappings] : n \in 0..MaxMappings}}

\* index.ts: new ProfileValidator(profile).validate(), then the mapper of
\* the process function works on the same profile object
Validate ==
    /\ mapper.stage = "loaded"
    /\ mapper' = IF validate(mapper.profile).ok
                 THEN [mapper EXCEPT !.stage = "probed",
                                     !.mappings = validate(mapper.profile).val.mappings]
                 ELSE [mapper EXCEPT !.stage = "invalid"]
    /\ UNCHANGED <<schedVars, workVars, worker, fsVars, histVars, watchVars>>

ValidatorInit ==
    /\ InitWith([exists |-> FALSE, lines |-> <<>>])
    /\ deleteAfterProcess = FALSE
    /\ worker = NoWorker
    /\ filterRun = NoFilterRun
    /\ ownerWalk = NoOwnerWalk
    /\ pathTrip = NoPathTrip
    /\ \E profile \in LoadedProfiles, streams \in ProbedStreams :
           mapper = [NoMapper EXCEPT !.profile = profile,
                                     !.input = NewInputMedia(FileA, streams, <<>>),
                                     !.probed = NewInputMedia(FileA, streams, <<>>),
                                     !.stage = "loaded"]

ValidatorNext ==
    \/ Validate
    \/ MapperApply
    \/ ProcessThen
    \/ ProcessCatch

ValidatorSpec == ValidatorInit /\ [][ValidatorNext]_vars

\* ----------------------------------------------------------------- claims
Started == {"apply", "run", "done", "failed", "rejected"}
Completed == {"done", "failed", "rejected"}

\* C1: at most one task is being processed at any instant, whatever the
\* interleaving of schedule calls, cancel calls and task completions.
SingleFlight == Cardinality(procs) <= 1

\* a task is being processed while another one waits in the queue
SingleFlightWitness == procs # {} /\ queue # <<>>

\* C2: of two tasks scheduled one after the other and not cancelled, the
\* earlier one has completed (success or failure) when the later one starts.
FifoOrder ==
    \A i, j \in TaskIds :
        (i < j /\ status[j] \in Started /\ status[i] # "cancelled")
            => status[i] \in Completed

\* the second task has started after the first one completed
FifoOrderWitness == status[1] \in Completed /\ status[2] \in Started

\* C3: every task that is queued for x and not yet started when cancel(x) is
\* called is removed from the queue and never starts, also when x has been
\* scheduled more than once.
CancelRemovesQueued == \A id \in victims : status[id] = "cancelled"

\* C4: while a task for a file is queued and not yet started, schedule of the
\* same file creates no second task for it.
OneQueuedTaskPerFile ==
    \A i, j \in QueuedIds : tasks[i] = tasks[j] => i = j

\* C5: once a transcode of f has ended successfully and its exclude.list
\* append has completed, the ExcludeListFilter rejects f: the entry written
\* on success is the entry the filter matches.
ProcessedIsExcluded ==
    \A x \in appendBy :
        (\A a \in pendingAppend : a[1] # x[1]) => ExcludeListFilter(x[2]) = "reject"

\* C6: exclude.list never contains the same input path on two lines.
ExcludeListNoDuplicate ==
    \A i, j \in 1..Len(excludeList.lines) :
        excludeList.lines[i] = excludeList.lines[j] => i = j

\* C7: an execution that fails appends nothing to exclude.list; the append is
\* issued only by an execution that ended successfully.
AppendOnlyOnEnd == \A x \in appendBy : status[x[1]] = "done"

\* one execution failed in the transcoder, another one ended, and
\* exclude.list holds the single line of the one that ended
AppendOnlyOnEndWitness ==
    /\ \E id \in TaskIds : status[id] = "failed"
    /\ \E id \in TaskIds : status[id] = "done"
    /\ pendingAppend = {}
    /\ Len(excludeList.lines) = 1

\* C8: every planned output path that exists when a transcode fails is
\* eventually unlinked by the cleanup of that failure.
CleanupRemovesOutputs ==
    \A u \in TaskIds \X AllOutputPaths :
        (u \in existedAtFailure /\ u \notin unlinked) ~> (u[2] \notin disk)

\* a failed transcode left two outputs and its cleanup has removed both
CleanupWitness ==
    \E id \in TaskIds :
        /\ status[id] = "failed"
        /\ Cardinality({u \in existedAtFailure : u[1] = id}) = 2
        /\ \A u \in existedAtFailure : u[1] = id => (u \in unlinked /\ u[2] \notin disk)

\* C9: when a filter() settles in a notification pass, schedule(file) is
\* emitted exactly once if all three filters passed and not at all otherwise.
EmitOncePerAccepted ==
    lastFilter # <<>> => lastFilter[3] = (IF lastFilter[2] THEN 1 ELSE 0)

\* C10: every schedule(file) and cancel(file) event the Watcher emits results
\* in the call of the Scheduler method of the same name for that file.
EventsReachScheduler == \A e \in emitted : e \in wiredCalls

\* C11: a remove(file) of a pending file leaves the pending list as it was
\* with that one file dropped, every other file kept in the same order.
RemoveDropsOneFile ==
    [][\A f \in Files :
          (onRemove(f) /\ IndexOf(pendingFiles, f) > 0)
              => pendingFiles' =
                     SubSeq(pendingFiles, 1, IndexOf(pendingFiles, f) - 1)
                         \o SubSeq(pendingFiles, IndexOf(pendingFiles, f) + 1,
                                   Len(pendingFiles))]_vars

\* C12: the files a notification pass hands to the filter chain are, in
\* order, the files of the sorted pending list as it was when the timer
\* fired, whatever events arrive while the pass awaits a filter.
PassFollowsSnapshot ==
    \A k \in 1..Len(passes) :
        /\ Len(passes[k].seen) <= Len(passes[k].snap)
        /\ passes[k].seen = SubSeq(passes[k].snap, 1, Len(passes[k].seen))

\* C13: notification passes never overlap.
PassesNeverOverlap == Len(passes) <= 1

FailureIsolation ==
    \A i \in TaskIds : (status[i] = "queued") ~> (status[i] # "queued")

\* C17: when the mappings of the profile produce zero OutputMedia the mapper
\* rejects with 'No output: skip', no Worker is created and the reason is
\* what the queue is told.
NoOutputSkips ==
    LET built == BuildMappings([k \in {"input"} |-> mapper.input], mapper.mappings, 0)
    IN  (mapper.stage \notin {"none", "probed"} /\ built.ok /\ built.val = <<>>)
            => /\ mapper.plan.settled = "reject"
               /\ mapper.plan.reason = NoOutput
               /\ mapper.workers = 0
               /\ mapper.stage = "failed" => mapper.callbacks = <<NoOutput>>

\* two mappings of different kinds produced no output and the task failed
\* with the reason
NoOutputSkipsWitness ==
    /\ mapper.stage = "failed"
    /\ mapper.callbacks = <<NoOutput>>
    /\ mapper.workers = 0
    /\ Len(mapper.mappings) = 2
    /\ mapper.mappings[1].id = "chapters"
    /\ mapper.mappings[2].id = "empty"

\* C18: the OutputMedia ids of a plan the mapper returns are 0, 1, ..., n-1
\* in list order.
OutputIdsContiguous ==
    mapper.stage \in {"applied", "running"} /\ mapper.plan.settled = "resolve"
        => \A i \in 1..Len(mapper.plan.outputs) : mapper.plan.outputs[i].id = i - 1

\* a plan of a chapters mapping over three chapters (the last one added up
\* to the duration, the first one dropped by 'when') and a per-stream mapping
\* with two outputs
OutputIdsContiguousWitness ==
    /\ mapper.stage = "running"
    /\ mapper.mappings[1].id = "chapters"
    /\ Len(mapper.mappings) = 2
    /\ mapper.mappings[2].id = "streams"
    /\ Len(getChapters([k \in {"input"} |-> mapper.input])) = 3
    /\ Len(mapper.plan.outputs) = 4

\* C19: every OutputMedia of a returned plan has at least one OutputStream
\* and its stream indices are 0, 1, ..., m-1 in list order.
StreamIndicesContiguous ==
    mapper.stage \in {"applied", "running"} /\ mapper.plan.settled = "resolve"
        => \A i \in 1..Len(mapper.plan.outputs) :
               LET streams == mapper.plan.outputs[i].streams
               IN  /\ Len(streams) >= 1
                   /\ \A j \in 1..Len(streams) : streams[j].index = j - 1

\* a plan whose first output dropped the subtitle stream and duplicated the
\* video stream
StreamIndicesContiguousWitness ==
    /\ mapper.stage = "running"
    /\ mapper.mappings[1].id = "single"
    /\ Len(mapper.input.streams) = 3
    /\ Len(mapper.plan.outputs[1].streams) = 3

\* C20: no params string of a returned plan holds a '{' that is followed by a
\* '}': every snippet has been resolved, or no plan is returned.
ParamsResolved ==
    mapper.stage \in {"applied", "running"} /\ mapper.plan.settled = "resolve"
        => \A i \in 1..Len(mapper.plan.outputs) :
               LET o == mapper.plan.outputs[i]
                   strings == Range(o.params) \cup
                              UNION {Range(o.streams[j].params) : j \in 1..Len(o.streams)}
               IN  \A str \in strings :
                       ~\E a, b \in 1..Len(str) : a < b /\ str[a] = "{" /\ str[b] = "}"

\* C21: in a single mapping every input stream that no stream option matches
\* (and that is not excluded) yields exactly one OutputStream whose resolved
\* params are "-map <input id>:<stream index>" and "-c:<output stream index>
\* copy". Stated on the plans of the profiles made of one single mapping.
CopyByDefault ==
    (/\ mapper.stage \in {"applied", "running"}
     /\ mapper.plan.settled = "resolve"
     /\ Len(mapper.mappings) = 1
     /\ mapper.mappings[1].on.kind = "unset")
        => \A k \in 1..Len(mapper.input.streams) :
               LET s == mapper.input.streams[k]
                   options == getOptions([c \in {"input"} |-> mapper.input], s,
                                         mapper.mappings[1])
                   streams == mapper.plan.outputs[1].streams
                   of == {j \in 1..Len(streams) : streams[j].source = s}
               IN  (options.ok /\ options.val = <<>>)
                       => /\ Cardinality(of) = 1
                          /\ \A j \in of :
                                 streams[j].params =
                                     << <<"-map", " ">> \o StringOf(mapper.input.id)
                                          \o <<":">> \o StringOf(s.index),
                                        <<"-c:">> \o StringOf(streams[j].index)
                                          \o <<" ", "copy">> >>

\* C22: the command receives the input path and the input options first,
\* then each OutputMedia in builder order, and for each output the options of
\* its streams before the options of the output itself.
CommandOrder ==
    mapper.stage = "running"
        => LET outs == mapper.plan.outputs
               calls(o) ==
                   <<[call |-> "output", args |-> <<resolvePath(o.path, OutputDirectory)>>],
                     [call |-> "outputOption",
                      args |-> SplitOptions(
                                   Concat([j \in 1..Len(o.streams) |-> o.streams[j].params]))
                               \o SplitOptions(o.params)]>>
           IN  mapper.command =
                   <<[call |-> "input",
                      args |-> <<resolvePath(mapper.input.path, InputDirectory)>>],
                     [call |-> "inputOption", args |-> SplitOptions(mapper.input.params)]>>
                   \o Concat([i \in 1..Len(outs) |-> calls(outs[i])])

\* C23: when exclude.list does not exist, ExcludeListFilter.test passes the
\* file: its promise resolves.
MissingListPasses ==
    (/\ ~excludeList.exists
     /\ filterRun.results["ExcludeListFilter"] \in {"resolve", "reject"})
        => filterRun.results["ExcludeListFilter"] = "resolve"

\* C24: with an exclude.list, ExcludeListFilter.test rejects the file exactly
\* when the path of the file relative to the input directory is a line of
\* the list.
RelativeLineRejects ==
    (/\ excludeList.exists
     /\ filterRun.results["ExcludeListFilter"] \in {"resolve", "reject"})
        => (filterRun.results["ExcludeListFilter"] = "reject"
              <=> \E i \in 1..Len(excludeList.lines) :
                      excludeList.lines[i] = NodeRelative(InputDirectory, filterRun.file))

\* C25: ExtensionFilter.test passes the file iff include is set and matches
\* the extension without its dot, or exclude is set and does not match it,
\* for every combination of set and unset expressions.
ExtensionReference ==
    filterRun.results["ExtensionFilter"] \in {"resolve", "reject"}
        => LET extension == StripLeadingDot(PathParse(filterRun.file).ext)
               includeMatches == extension \in filterRun.include.exts
               excludeMatches == extension \in filterRun.exclude.exts
               reference ==
                   CASE filterRun.include.set /\ filterRun.exclude.set
                            -> includeMatches \/ ~excludeMatches
                     [] filterRun.include.set /\ ~filterRun.exclude.set -> includeMatches
                     [] ~filterRun.include.set /\ filterRun.exclude.set -> ~excludeMatches
                     [] OTHER -> FALSE
           IN  filterRun.results["ExtensionFilter"] = "resolve" <=> reference

\* both expressions are set and both match the extension: the file passes
ExtensionReferenceWitness ==
    /\ filterRun.include.set /\ filterRun.exclude.set
    /\ StripLeadingDot(PathParse(filterRun.file).ext) \in
           filterRun.include.exts \cap filterRun.exclude.exts
    /\ filterRun.results["ExtensionFilter"] = "resolve"

\* C26: FFProbeFilter.test passes the file iff ffprobe returns metadata whose
\* format.duration is a finite number.
ProbeNeedsDuration ==
    filterRun.results["FFProbeFilter"] \in {"resolve", "reject"}
        => (filterRun.results["FFProbeFilter"] = "resolve"
              <=> /\ ~filterRun.probe.err
                  /\ filterRun.probe.data
                  /\ filterRun.probe.duration = "number")

\* C27: the tests are invoked in the order exclude-list, extension, probe,
\* and a test is not invoked for a file an earlier test has rejected.
ChainShortCircuits ==
    \A i \in 1..Len(filterRun.invoked) :
        /\ filterRun.invoked[i] =
               <<"ExcludeListFilter", "ExtensionFilter", "FFProbeFilter">>[i]
        /\ \A j \in 1..(i - 1) : filterRun.results[filterRun.invoked[j]] # "reject"

\* C28: a notification pass hands to the filter chain only files that were
\* pending when its timer fired: a file added while the pass is in progress
\* waits for a later timer.
PassSkipsLateAdds ==
    \A k \in 1..Len(passes) :
        \A i \in 1..Len(passes[k].seen) :
            \E j \in 1..Len(passes[k].snap) : passes[k].snap[j] = passes[k].seen[i]

\* C29: the exclude.list append issued at the end of a task has completed
\* before a later task starts processing: at most one append is in flight
\* and no later task is being processed while it is.
AppendsSerialized ==
    /\ Cardinality(pendingAppend) <= 1
    /\ \A a \in pendingAppend : \A t \in procs : t.id <= a[1]

\* C30: in a single mapping, an input stream one of whose matched options
\* has exclude = TRUE is the source of no OutputStream of the output, even
\* when another matched option has duplicate = TRUE. Stated on the plans of
\* the profiles made of one single mapping.
ExcludedStreamAbsent ==
    (/\ mapper.stage \in {"applied", "running"}
     /\ mapper.plan.settled = "resolve"
     /\ Len(mapper.mappings) = 1
     /\ mapper.mappings[1].on.kind = "unset")
        => \A k \in 1..Len(mapper.input.streams) :
               LET s == mapper.input.streams[k]
                   options == getOptions([c \in {"input"} |-> mapper.input], s,
                                         mapper.mappings[1])
               IN  (options.ok /\ \E i \in 1..Len(options.val) : options.val[i].exclude)
                       => \A o \in 1..Len(mapper.plan.outputs) :
                              \A j \in 1..Len(mapper.plan.outputs[o].streams) :
                                  mapper.plan.outputs[o].streams[j].source # s

\* a stream matched by an option that excludes it and by an option that
\* duplicates it, in a plan that keeps other streams
ExcludedStreamAbsentWitness ==
    /\ mapper.stage = "running"
    /\ mapper.plan.settled = "resolve"
    /\ Len(mapper.mappings) = 1
    /\ mapper.mappings[1].on.kind = "unset"
    /\ Len(mapper.plan.outputs) = 1
    /\ \E k \in 1..Len(mapper.input.streams) :
           LET s == mapper.input.streams[k]
               options == getOptions([c \in {"input"} |-> mapper.input], s,
                                     mapper.mappings[1])
           IN  /\ options.ok
               /\ \E i \in 1..Len(options.val) : options.val[i].exclude
               /\ \E i \in 1..Len(options.val) : options.val[i].duplicate
               /\ \A j \in 1..Len(mapper.plan.outputs[1].streams) :
                      mapper.plan.outputs[1].streams[j].source # s

\* C31: in a single mapping, each matched option with duplicate = TRUE adds
\* one OutputStream whose final params are the params of that option only,
\* without a "-map" entry, and the params of the other matched options are
\* accumulated in the stream's own OutputStream after its "-map" entry.
\* Stated on the plans of the profiles made of one single mapping.
DuplicateParamsOnly ==
    (/\ mapper.stage \in {"applied", "running"}
     /\ mapper.plan.settled = "resolve"
     /\ Len(mapper.mappings) = 1
     /\ mapper.mappings[1].on.kind = "unset")
        => \A k \in 1..Len(mapper.input.streams) :
               LET s == mapper.input.streams[k]
                   options == getOptions([c \in {"input"} |-> mapper.input], s,
                                         mapper.mappings[1])
                   dups == SelectSeq(options.val, LAMBDA o : o.duplicate)
                   own == SelectSeq(options.val, LAMBDA o : ~o.duplicate)
                   of == SelectSeq(mapper.plan.outputs[1].streams,
                                   LAMBDA os : os.source = s)
               IN  (options.ok /\ \A i \in 1..Len(options.val) : ~options.val[i].exclude)
                       => /\ Len(of) = Len(dups) + 1
                          /\ \A i \in 1..Len(dups) :
                                 /\ Len(of[i].params) = Len(dups[i].params)
                                 /\ \A n \in 1..Len(of[i].params) :
                                        of[i].params[n][1] # "-map"
                          /\ of[Len(of)].params[1] =
                                 <<"-map", " ">> \o StringOf(mapper.input.id)
                                     \o <<":">> \o StringOf(s.index)
                          /\ Len(of[Len(of)].params) =
                                 1 + Len(Concat([i \in 1..Len(own) |-> own[i].params]))

\* C32: in a per-stream mapping the options are ignored: every output has one
\* OutputStream whose params are "-map" followed by the params of the mapping
\* only, and the params of no option appear in it. Stated on the plans of
\* the profiles made of one per-stream mapping.
ManyIgnoresOptions ==
    (/\ mapper.stage \in {"applied", "running"}
     /\ mapper.plan.settled = "resolve"
     /\ Len(mapper.mappings) = 1
     /\ mapper.mappings[1].on.kind = "array")
        => \A o \in 1..Len(mapper.plan.outputs) :
               LET streams == mapper.plan.outputs[o].streams
                   mapping == mapper.mappings[1]
               IN  /\ Len(streams) = 1
                   /\ Len(streams[1].params) = 1 + Len(mapping.params)
                   /\ streams[1].params[1] =
                          <<"-map", " ">> \o StringOf(mapper.input.id) \o <<":">>
                              \o StringOf(streams[1].source.index)
                   /\ \A i \in 1..Len(mapping.options) :
                          \A n \in 1..Len(mapping.options[i].params) :
                              \A m \in 1..Len(streams[1].params) :
                                  streams[1].params[m] # mapping.options[i].params[n]

InputUnchanged ==
    mapper.stage \in {"applied", "running", "failed"} => mapper.input = mapper.probed

\* C34: with UID and GID set, the walk of setOwner looks at the output file
\* and at its ancestor directories strictly below the output directory only,
\* never at the output directory or above it, and it ends, for every form of
\* the configured output directory.
OwnerWalkBelowRoot ==
    LET root == Segments(NodeResolve(ownerWalk.directory, <<>>))
    IN  /\ \A p \in ownerWalk.visited :
               /\ Len(Segments(p)) > Len(root)
               /\ SubSeq(Segments(p), 1, Len(root)) = root
        /\ ~(/\ ownerWalk.stage = "walking"
              /\ ownerWalk.currentPath = NodeDirname(ownerWalk.currentPath)
              /\ ownerWalk.currentPath # ReplaceSepDollar(ownerWalk.directory))

\* C35: after validate() has succeeded the profile has at least one mapping,
\* no mapping and no option with skip, and an output for every mapping; and
\* in the plans built from it no OutputMedia and no params come from a
\* mapping or an option with skip.
ValidatedProfile ==
    /\ mapper.stage \in {"probed", "applied", "running", "failed"}
           => /\ Len(mapper.mappings) > 0
              /\ \A i \in 1..Len(mapper.mappings) :
                     /\ ~mapper.mappings[i].skip
                     /\ mapper.mappings[i].output # <<>>
                     /\ \A j \in 1..Len(mapper.mappings[i].options) :
                            ~mapper.mappings[i].options[j].skip
    /\ (mapper.stage \in {"applied", "running"} /\ mapper.plan.settled = "resolve")
           => \A o \in 1..Len(mapper.plan.outputs) :
                  /\ <<"-skipped">> \notin Range(mapper.plan.outputs[o].params)
                  /\ \A j \in 1..Len(mapper.plan.outputs[o].streams) :
                         <<"-skipped">> \notin
                             Range(mapper.plan.outputs[o].streams[j].params)

\* a plan built from a profile loaded with a mapping with skip and with a
\* mapping that has an option with skip
ValidatedProfileWitness ==
    /\ mapper.stage = "running"
    /\ mapper.profile # <<>>
    /\ \E i \in 1..Len(mapper.profile.mappings) : mapper.profile.mappings[i].skip
    /\ \E i \in 1..Len(mapper.profile.mappings) :
           /\ ~mapper.profile.mappings[i].skip
           /\ \E j \in 1..Len(mapper.profile.mappings[i].options) :
                  mapper.profile.mappings[i].options[j].skip
    /\ Len(mapper.plan.outputs) = 1

\* C37: no pending file is lost: a file that was added and not removed since
\* is eventually handed to the filter chain, whatever add, remove and change
\* events of other files, timer firings and passes in progress interleave.
NoPendingFileLost == \A f \in Files : (f \in owed) ~> (f \notin owed)

\* ------------------------------------------------- cleanup after a failure
\* profile.output.directory: a directory of its own, or the input directory
CleanupDirectories == {OutputDirectory, InputDirectory}

\* output mappings a profile may hold: those of Mappings and one whose
\* snippet "{fn}" and format repeat the name and extension of the input
CleanupMappings ==
    Range(Mappings) \cup {[suffix |-> <<>>, format |-> <<"mp4">>]}

\* the profiles: one or two of these mappings
CleanupProfiles ==
    {<<m>> : m \in CleanupMappings}
        \cup {<<m, n>> : m \in CleanupMappings, n \in CleanupMappings}

\* worker.outputs resolved against profile.output.directory, as
\* CleanOutputTask.execute resolves them
PlannedOutputs(file, directory, ms) ==
    [i \in 1..Len(ms) |->
        resolvePath(PathFromSnippet(PathFromFile(InputDirectory, file), ms[i]), directory)]

\* the transcoder is running for task 1: the plan of the file is built
CleanupInit ==
    /\ \E f \in Files, directory \in CleanupDirectories, ms \in CleanupProfiles :
           /\ tasks = (1 :> f)
           /\ procs = {[id |-> 1, file |-> f, phase |-> "run",
                        outputs |-> PlannedOutputs(f, directory, ms)]}
    /\ taskCount = 1
    /\ currentTask = 1
    /\ queue = <<>>
    /\ inflight = {1}
    /\ delaying = FALSE
    /\ deleteAfterProcess \in BOOLEAN
    /\ disk = Files
    /\ excludeList = [exists |-> FALSE, lines |-> <<>>]
    /\ pendingAppend = {}
    /\ pendingUnlink = {}
    /\ status = [i \in TaskIds |-> IF i = 1 THEN "run" ELSE "none"]
    /\ victims = {}
    /\ appendBy = {}
    /\ existedAtFailure = {}
    /\ unlinked = {}
    /\ pendingFiles = <<>>
    /\ timerArmed = FALSE
    /\ passes = <<>>
    /\ events = 0
    /\ emitted = {}
    /\ wiredCalls = {}
    /\ lastFilter = <<>>
    /\ owed = {}
    /\ worker = NoWorker
    /\ mapper = NoMapper
    /\ filterRun = NoFilterRun
    /\ ownerWalk = NoOwnerWalk
    /\ pathTrip = NoPathTrip

CleanupNext ==
    \/ \E t \in procs : TranscodeEnd(t)
    \/ \E t \in procs : \E written \in SUBSET Range(t.outputs) : TranscodeError(t, written)
    \/ \E a \in pendingAppend : AppendDone(a)
    \/ \E u \in pendingUnlink : UnlinkDone(u)
    \/ DelayElapsed

CleanupSpec == CleanupInit /\ [][CleanupNext]_vars

\* C38: failure cleanup never deletes the input file of the failed task:
\* whatever the output directory and the mappings of the profile, no unlink
\* issued when a task fails targets the input path of that task.
FailureKeepsInput ==
    [][\A t \in procs :
           status'[t.id] = "failed"
               => <<t.id, InputPathOf(t.file)>> \notin pendingUnlink']_vars

\* C39: within one plan no two OutputMedia resolve to the same output path,
\* whatever the profile and the input.
DistinctOutputPaths ==
    (mapper.stage \in {"applied", "running"} /\ mapper.plan.settled = "resolve")
        => \A i, j \in 1..Len(mapper.plan.outputs) :
               i # j => resolvePath(mapper.plan.outputs[i].path, OutputDirectory)
                            # resolvePath(mapper.plan.outputs[j].path, OutputDirectory)

\* -------------------------------------------------- Path.fromFile, resolve
\* base directories: plain, with a trailing separator, and a subdirectory
BaseDirectories ==
    {InputDirectory, InputDirectory \o <<"/">>, InputDirectory \o <<"/", "sub">>}

\* the directories under a base directory that hold the files
Subdirectories == {<<>>, <<"/", "sub">>, <<"/", "sub", "/", "deep">>}

\* file names: with an extension, with two, without one, and a dot file
FileNames ==
    {<<"a", ".", "mp4">>, <<"a", ".", "tar", ".", "gz">>, <<"b">>, <<".", "hidden">>}

\* the absolute paths of the files located under basedir
FilesUnder(basedir) ==
    {NodeNormalize(basedir) \o d \o <<"/">> \o n : d \in Subdirectories, n \in FileNames}

\* Path.fromFile(basedir, file)
FromFile ==
    /\ pathTrip.stage = "file"
    /\ pathTrip' = [pathTrip EXCEPT !.stage = "path",
                                    !.path = PathFromFile(pathTrip.basedir, pathTrip.file)]
    /\ UNCHANGED <<schedVars, workVars, worker, mapper, fsVars, histVars>>
    /\ UNCHANGED <<pendingFiles, timerArmed, passes, events, emitted, wiredCalls,
                   lastFilter, owed, filterRun, ownerWalk>>

\* path.resolve(basedir) of the Path made by fromFile
Resolve ==
    /\ pathTrip.stage = "path"
    /\ pathTrip' = [pathTrip EXCEPT !.stage = "resolved",
                                    !.resolved = PathResolve(pathTrip.path, pathTrip.basedir)]
    /\ UNCHANGED <<schedVars, workVars, worker, mapper, fsVars, histVars>>
    /\ UNCHANGED <<pendingFiles, timerArmed, passes, events, emitted, wiredCalls,
                   lastFilter, owed, filterRun, ownerWalk>>

PathInit ==
    /\ InitWith([exists |-> FALSE, lines |-> <<>>])
    /\ deleteAfterProcess = FALSE
    /\ worker = NoWorker
    /\ mapper = NoMapper
    /\ filterRun = NoFilterRun
    /\ ownerWalk = NoOwnerWalk
    /\ \E basedir \in BaseDirectories : \E file \in FilesUnder(basedir) :
           pathTrip = [NoPathTrip EXCEPT !.basedir = basedir, !.file = file,
                                         !.stage = "file"]

PathNext ==
    \/ FromFile
    \/ Resolve

PathSpec == PathInit /\ [][PathNext]_vars

\* C40: path round trip: for every file located under a base directory,
\* Path.fromFile(base, file).resolve(base) is the absolute path of the file,
\* in subdirectories and without an extension too.
PathRoundTrip ==
    pathTrip.stage = "resolved" => pathTrip.resolved = pathTrip.file

====
